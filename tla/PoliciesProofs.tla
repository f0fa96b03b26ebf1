--------------------------- MODULE PoliciesProofs ---------------------------
(***************************************************************************)
(* Proofs about Policies, for all constants.  First that the rounds in     *)
(* cyclic storage are kept; then, by the invariant Inv, that every policy  *)
(* arrives in time, that results are computed under the policy in force    *)
(* and that no message is refused.                                         *)
(***************************************************************************)
EXTENDS Policies, TimingProofs, FiniteSetTheorems, SequenceTheorems,
        WellFoundedInduction

\* Times, and the rounds the manager created: all of them have begun.
RoundsInv ==
    /\ now \in Nat /\ T0 <= now
    /\ indexed \in Nat /\ indexed <= now
    /\ mPc \in {"off", "init", "run"}
    /\ mPc # "off" => from \in Nat /\ T0 <= from /\ firstVotes \in Nat
    /\ \A x \in rounds : x.id \in Nat /\ RoundStartTS(x.id) <= now
    /\ lastRoundCreated \in Nat /\ RoundStartTS(lastRoundCreated) <= now

-----------------------------------------------------------------------------
(* Facts about the operators.                                              *)

\* Two rounds with the same slot are RoundBuffer rounds apart.
LEMMA SlotDistance ==
    ASSUME NEW m \in Nat, NEW n \in Nat, m < n, Slot(m) = Slot(n)
    PROVE  m + RoundBuffer <= n
<1> DEFINE k == RoundBuffer
<1>1. k \in Nat \ {0}
  BY PoliciesAssumption
<1> HIDE DEF k
<1>2. /\ m = (m \div k) * k + (m % k) /\ n = (n \div k) * k + (n % k)
      /\ m \div k \in Nat /\ n \div k \in Nat /\ m % k \in Nat /\ n % k \in Nat
  BY <1>1
<1>3. m % k = n % k
  BY DEF Slot, k
<1>4. ~(n \div k <= m \div k)
  <2> SUFFICES ASSUME n \div k <= m \div k PROVE FALSE
    OBVIOUS
  <2>1. (n \div k) * k <= (m \div k) * k
    BY <1>1, <1>2
  <2> QED
    BY <1>1, <1>2, <1>3, <2>1
<1>5. (m \div k + 1) * k <= (n \div k) * k
  BY <1>1, <1>2, <1>4
<1>6. (m \div k + 1) * k = (m \div k) * k + k
  BY <1>1, <1>2
<1> QED
  BY <1>1, <1>2, <1>3, <1>5, <1>6 DEF k

\* When the later one of them begins, the earlier one needs no messages.
LEMMA SlotReused ==
    ASSUME NEW m \in Nat, NEW n \in Nat, m + RoundBuffer <= n,
           NEW t \in Nat, RoundStartTS(n) <= t
    PROVE  ChooseEndTS(m) + Late < t
<1> DEFINE c == CollectDurationSec
<1>1. /\ c \in Nat \ {0} /\ T0 \in Nat /\ ChooseDurationSec \in Nat
      /\ Late \in Nat /\ RoundBuffer \in Nat \ {0}
  BY TimingAssumption, PoliciesAssumption
<1> HIDE DEF c
<1>2. (m + RoundBuffer) * c <= n * c
  BY <1>1
<1>3. (m + RoundBuffer) * c = (m + 1) * c + (RoundBuffer - 1) * c
  BY <1>1
<1>4. /\ (m + 1) * c \in Nat /\ (RoundBuffer - 1) * c \in Nat /\ n * c \in Nat
      /\ (m + RoundBuffer) * c \in Nat
  BY <1>1
<1>5. /\ RoundStartTS(n) = T0 + n * c
      /\ ChooseEndTS(m) = T0 + (m + 1) * c + ChooseDurationSec
  BY DEF RoundStartTS, ChooseEndTS, ChooseStartTS, c
<1>6. ChooseDurationSec + Late < (RoundBuffer - 1) * c
  BY LateAssumption DEF c
<1> QED
  BY <1>1, <1>2, <1>3, <1>4, <1>5, <1>6

\* A round that has begun and that a message may still come for.
Open(r) ==
    r \in Nat /\ RoundStartTS(r) <= now /\ now <= ChooseEndTS(r) + Late

\* A new round takes the slot of a round that no message comes for any more.
LEMMA SlotFree ==
    ASSUME RoundsInv, NEW r, Open(r), NEW x \in rounds,
           x.id # r, Slot(x.id) = Slot(r)
    PROVE  ChooseEndTS(x.id) + Late < now
<1>1. /\ r \in Nat /\ x.id \in Nat /\ now \in Nat
      /\ RoundStartTS(r) <= now /\ RoundStartTS(x.id) <= now
  BY DEF Open, RoundsInv
<1>2. CASE x.id < r
  BY <1>1, <1>2, SlotDistance, SlotReused
<1>3. CASE r < x.id
  <2>1. ChooseEndTS(r) + Late < now
    BY <1>1, <1>3, SlotDistance, SlotReused
  <2>2. ChooseEndTS(r) \in Nat /\ Late \in Nat
    BY <1>1, TimingAssumption, PoliciesAssumption
    DEF ChooseEndTS, ChooseStartTS, RoundStartTS
  <2> QED
    BY <1>1, <2>1, <2>2 DEF Open
<1> QED
  BY <1>1, <1>2, <1>3

-----------------------------------------------------------------------------
(* Rounds.                                                                 *)

\* GetOrCreateRound keeps every round but those of the new round's slot.
LEMMA CreateKeeps ==
    ASSUME NEW r, GetOrCreateRound(r)
    PROVE  /\ \A x \in rounds' : x \in rounds \/ x.id = r
           /\ \A x \in rounds \ rounds' : x.id # r /\ Slot(x.id) = Slot(r)
           /\ lastRoundCreated' \in {lastRoundCreated, r}
<1>1. CASE Stored(r)
  BY <1>1 DEF GetOrCreateRound, roundVars
<1>2. CASE ~Stored(r)
  <2>1. \A x \in rounds : x.id # r
    BY <1>2 DEF Stored
  <2> QED
    BY <1>2, <2>1 DEF GetOrCreateRound
<1> QED
  BY <1>1, <1>2

\* A request is of a round that is open, and not before the first query.
LEMMA RequestOpen ==
    ASSUME RoundsInv, OnRequest
    PROVE  \E r : Open(r) /\ GetOrCreateRound(r) /\ RoundIDForTS(from) <= r
<1>0. /\ now \in Nat /\ indexed \in Nat /\ indexed <= now /\ mPc = "run"
      /\ from \in Nat /\ T0 <= from /\ Late \in Nat /\ ChooseDurationSec \in Nat
  BY TimingAssumption, PoliciesAssumption DEF RoundsInv, OnRequest
<1>1. PICK t \in from..indexed : now <= t + Late /\ GetOrCreateRound(RoundIDForTS(t))
  BY DEF OnRequest
<1> DEFINE r == RoundIDForTS(t)
           q == RoundIDForTS(from)
<1>2. t \in Nat /\ T0 <= t /\ from <= t /\ t <= now /\ now <= t + Late
  BY <1>0, <1>1, TimingAssumption
<1>3. /\ r \in Nat /\ RoundStartTS(r) <= t /\ t < RoundStartTS(r + 1)
      /\ q \in Nat /\ RoundStartTS(q) <= from
  BY <1>0, <1>2, RoundOfTimestamp
<1> HIDE DEF r, q
<1>4. /\ RoundStartTS(r) \in Nat /\ RoundStartTS(r + 1) \in Nat
      /\ RoundStartTS(q) \in Nat
  BY <1>3, RoundStartType
<1>5. now <= ChooseEndTS(r) + Late
  BY <1>0, <1>2, <1>3, <1>4 DEF ChooseEndTS, ChooseStartTS
<1>6. q <= r
  <2> SUFFICES ASSUME ~(q <= r) PROVE FALSE
    OBVIOUS
  <2>1. RoundStartTS(r + 1) <= RoundStartTS(q)
    <3>1. CASE r + 1 = q
      BY <1>4, <3>1
    <3>2. CASE r + 1 < q
      <4>1. RoundStartTS(r + 1) + CollectDurationSec <= RoundStartTS(q)
        BY <1>3, <3>2, RoundStartMonotone
      <4> QED
        BY <1>4, <4>1, TimingAssumption
    <3> QED
      BY <1>3, <3>1, <3>2
  <2> QED
    BY <1>0, <1>2, <1>3, <1>4, <2>1
<1> QED
  BY <1>0, <1>1, <1>2, <1>3, <1>4, <1>5, <1>6 DEF Open, r, q

\* BitVotes are of a round that is open.
LEMMA VotesOpen ==
    ASSUME RoundsInv, mPc = "run", NEW r \in firstVotes..RoundIDForTS(now),
           ChooseEndTS(r) <= now, now <= ChooseEndTS(r) + Late
    PROVE  Open(r)
<1>1. r \in Nat /\ now \in Nat
  BY DEF RoundsInv
<1>2. RoundStartTS(r) \in Nat /\ RoundStartTS(r) <= ChooseEndTS(r) /\ ChooseEndTS(r) \in Nat
  BY <1>1, TimingAssumption DEF ChooseEndTS, ChooseStartTS, RoundStartTS
<1> QED
  BY <1>1, <1>2 DEF Open

\* Both kinds of messages.
LEMMA MessagesOpen ==
    ASSUME RoundsInv, OnRequest \/ OnBitVotes
    PROVE  \E r : Open(r) /\ GetOrCreateRound(r)
BY RequestOpen, VotesOpen DEF OnBitVotes

\* One step.
LEMMA RoundsStep == RoundsInv /\ [Next]_vars => RoundsInv'
<1> SUFFICES ASSUME RoundsInv, [Next]_vars PROVE RoundsInv'
  OBVIOUS
<1> USE DEF RoundsInv
<1>1. CASE UNCHANGED <<now, indexed, mPc, from, firstVotes, rounds, lastRoundCreated>>
  BY <1>1
<1>2. CASE IndexerCatchesUp
  BY <1>2 DEF IndexerCatchesUp, roundVars, inputVars
<1>3. CASE TimePasses
  <2>1. /\ \A x \in rounds : RoundStartTS(x.id) \in Nat
        /\ RoundStartTS(lastRoundCreated) \in Nat
    BY RoundStartType
  <2>2. /\ now' = now + 1
        /\ UNCHANGED <<indexed, mPc, from, firstVotes, rounds, lastRoundCreated>>
    BY <1>3 DEF TimePasses, roundVars, inputVars
  <2> QED
    BY <2>1, <2>2, TimingAssumption
<1>4. CASE Start
  <2>1. /\ from' = LastCollectPhaseStart(indexed) /\ firstVotes' = NextChooseEnd(indexed)
        /\ T0 <= indexed /\ mPc' = "init"
        /\ UNCHANGED <<now, indexed, rounds, lastRoundCreated>>
    BY <1>4 DEF Start, chainVars, roundVars
  <2>2. RoundIDForTS(indexed) \in Nat
    BY <2>1, RoundOfTimestamp
  <2>3. from' \in Nat /\ T0 <= from'
    BY <2>1, <2>2, RoundStartType DEF LastCollectPhaseStart
  <2>4. firstVotes' \in Nat
    BY <2>1, NextChooseEndIsNext
  <2> QED
    BY <2>1, <2>3, <2>4
<1>5. CASE Ends
  BY <1>5, TimingAssumption DEF Ends, chainVars, RoundStartTS
<1>6. CASE RunInitial
  <2>1. CASE Ends
    BY <1>5, <2>1
  <2>2. CASE ~Ends
    BY <1>6, <2>2 DEF RunInitial, chainVars, roundVars, inputVars
  <2> QED
    BY <2>1, <2>2
<1>7. CASE OnRequest \/ OnBitVotes
  <2>1. PICK r : Open(r) /\ GetOrCreateRound(r)
    BY <1>7, MessagesOpen
  <2>2. /\ \A x \in rounds' : x \in rounds \/ x.id = r
        /\ lastRoundCreated' \in {lastRoundCreated, r}
    BY <2>1, CreateKeeps
  <2>3. UNCHANGED <<now, indexed, mPc, from, firstVotes>>
    BY <1>7 DEF OnRequest, OnBitVotes, chainVars, inputVars
  <2> QED
    BY <2>1, <2>2, <2>3 DEF Open
<1> QED
  BY <1>1, <1>2, <1>3, <1>4, <1>5, <1>6, <1>7
  DEF Next, vars, chainVars, roundVars, inputVars, SigningPolicyInitialized, Crash,
      scheduledShutdown, SigningPolicyInitializedListener, queryNextSPI,
      queryNextSPIFails, spiTargetedListenerSends, OnSigningPolicies

\* Times are right, and no round is stored before it has begun.
THEOREM RoundsBegun == Spec => []RoundsInv
<1>1. Init => RoundsInv
  BY TimingAssumption, PoliciesAssumption DEF Init, RoundsInv, RoundStartTS
<1> QED
  BY <1>1, RoundsStep, PTL DEF Spec

\* While the client runs, cyclic storage gives up a round only when no message
\* for it can come any more: a new round takes the slot of one that is
\* RoundBuffer rounds older, never of a newer one.
THEOREM RoundsKept == Spec => RoundKeptWhileNeeded
<1> DEFINE Kept == mPc' = "run" =>
                       \A x \in rounds \ rounds' : ChooseEndTS(x.id) + Late < now
<1>1. RoundsInv /\ [Next]_vars => [Kept]_vars
  <2> SUFFICES ASSUME RoundsInv, Next, mPc' = "run", NEW x \in rounds \ rounds'
               PROVE  ChooseEndTS(x.id) + Late < now
    OBVIOUS
  <2>1. CASE OnRequest \/ OnBitVotes
    <3>1. PICK r : Open(r) /\ GetOrCreateRound(r)
      BY <2>1, MessagesOpen
    <3>2. x.id # r /\ Slot(x.id) = Slot(r)
      BY <3>1, CreateKeeps
    <3> QED
      BY <3>1, <3>2, SlotFree
  <2>2. CASE ~(OnRequest \/ OnBitVotes)
    BY <2>2 DEF Next, roundVars, SigningPolicyInitialized, IndexerCatchesUp,
           TimePasses, Start, Crash, Ends, scheduledShutdown,
           SigningPolicyInitializedListener, queryNextSPI, queryNextSPIFails,
           spiTargetedListenerSends, RunInitial, OnSigningPolicies
  <2> QED
    BY <2>1, <2>2
<1> QED
  BY <1>1, RoundsBegun, PTL DEF Spec, RoundKeptWhileNeeded

-----------------------------------------------------------------------------
(* Numbers, and sequences of them.                                         *)

\* A set of numbers has a least one.
LEMMA LeastNumber ==
    ASSUME NEW T \in SUBSET Nat, T # {}
    PROVE  \E x \in T : \A y \in T : x <= y
<1>1. PICK x \in T : \A y \in T : ~(<<y, x>> \in OpToRel(<, Nat))
  BY WFMin, NatLessThanWellFounded
<1>2. \A y \in T : ~(y < x)
  BY <1>1 DEF OpToRel
<1> QED
  BY <1>2

\* A bounded one has a greatest one.
LEMMA GreatestNumber ==
    ASSUME NEW T \in SUBSET Nat, T # {}, NEW n \in Nat, \A y \in T : y <= n
    PROVE  \E x \in T : \A y \in T : y <= x
<1>1. PICK d \in {n - y : y \in T} : \A c \in {n - y : y \in T} : d <= c
  <2>1. \A y \in T : n - y \in Nat
    OBVIOUS
  <2>2. {n - y : y \in T} \in SUBSET Nat
    BY <2>1
  <2>3. {n - y : y \in T} # {}
    <3>1. PICK y \in T : TRUE
      OBVIOUS
    <3>2. n - y \in {n - z : z \in T}
      OBVIOUS
    <3> QED
      BY <3>2
  <2> QED
    BY <2>2, <2>3, LeastNumber
<1>2. PICK x \in T : d = n - x
  BY <1>1
<1>3. \A y \in T : n - x <= n - y
  BY <1>1, <1>2
<1> QED
  BY <1>3

\* The policies of consecutive epochs in their order.
LEMMA InOrderInterval ==
    ASSUME NEW a \in Nat, NEW b \in Nat, a <= b
    PROVE  LET q == InOrder(a..b)
           IN  /\ q \in Seq(a..b) /\ q # <<>>
               /\ q[1] = a /\ q[Len(q)] = b
               /\ a = b => q = <<a>>
<1> DEFINE S == a..b
           n == Cardinality(S)
           Ordered(q) == \A i, j \in DOMAIN q : i < j => q[i] < q[j]
           q == InOrder(S)
<1>1. n = b - a + 1 /\ n \in Nat \ {0}
  <2>1. Cardinality(a..b) = IF a > b THEN 0 ELSE b - a + 1
    BY FS_Interval
  <2> QED
    BY <2>1
<1>2. q \in [1..n -> S] /\ Ordered(q)
  <2> DEFINE w == [i \in 1..n |-> a + i - 1]
  <2>1. w \in [1..n -> S]
    BY <1>1
  <2>2. Ordered(w)
    BY <1>1
  <2> HIDE DEF w, n, S
  <2>3. \E x \in [1..n -> S] : Ordered(x)
    BY <2>1, <2>2
  <2>4. q = CHOOSE x \in [1..n -> S] : Ordered(x)
    BY DEF InOrder, n
  <2> QED
    BY <2>3, <2>4
<1> HIDE DEF n, q
<1>3. q \in Seq(S) /\ Len(q) = n /\ q # <<>>
  BY <1>1, <1>2
<1> SUFFICES q[1] = a /\ q[n] = b /\ (a = b => q = <<a>>)
  BY <1>3 DEF q
<1>4. \A i \in 1..n : q[i] \in S
  BY <1>2
<1>5. \A i \in 1..n : q[1] + i - 1 <= q[i]
  <2> DEFINE F == {i \in 1..n : ~(q[1] + i - 1 <= q[i])}
  <2> SUFFICES ASSUME F # {} PROVE FALSE
    OBVIOUS
  <2>1. PICK i \in F : \A j \in F : i <= j
    <3>1. F \in SUBSET Nat
      BY <1>1
    <3> QED
      BY <3>1, LeastNumber
  <2>2. i \in 1..n /\ i # 1
    BY <1>1, <1>4, <2>1
  <2>3. i - 1 \in 1..n /\ i - 1 \notin F
    BY <1>1, <2>1, <2>2
  <2>4. q[1] + (i - 1) - 1 <= q[i - 1]
    BY <2>3
  <2>5. q[i - 1] < q[i]
    BY <1>2, <2>2, <2>3
  <2>6. q[1] \in Nat /\ q[i - 1] \in Nat /\ q[i] \in Nat
    BY <1>1, <1>4, <2>2, <2>3
  <2> QED
    BY <1>1, <2>1, <2>2, <2>4, <2>5, <2>6
<1>6. q[1] \in a..b /\ q[n] \in a..b /\ q[1] + n - 1 <= q[n]
  BY <1>1, <1>4, <1>5
<1>7. q[1] = a /\ q[n] = b
  BY <1>1, <1>6
<1>8. ASSUME a = b PROVE q = <<a>>
  BY <1>1, <1>3, <1>7, <1>8
<1> QED
  BY <1>7, <1>8

-----------------------------------------------------------------------------
(* Adding a batch of policies.                                             *)

\* The fold of AddAll handles the policies of a batch in their order: g gives the
\* storage and the shutdowns after those with the indices in a set.
IsAdding(g, es, n) ==
    g = [s \in SUBSET (1..n) |->
            IF s = {} THEN [store |-> store, shutdowns |-> shutdowns]
            ELSE OnSigningPolicy(g[s \ {Max(s)}], es[Max(s)])]

\* AddAll is the value of such a fold.
LEMMA AddAllFold ==
    ASSUME NEW es, NEW n \in Nat, DOMAIN es = 1..n
    PROVE  AddAll(es) = (CHOOSE g : IsAdding(g, es, n))[1..n]
BY DEF AddAll, FoldLeft, MapThenFoldSet, IsAdding

\* The greatest index of a set.
LEMMA MaxOf ==
    ASSUME NEW s \in SUBSET Nat, NEW k \in s, \A j \in s : j <= k
    PROVE  Max(s) = k
<1> DEFINE m == CHOOSE x \in s : \A y \in s : x >= y
<1>1. \E x \in s : \A y \in s : x >= y
  <2>1. \A y \in s : k >= y
    OBVIOUS
  <2> QED
    BY <2>1
<1>2. m \in s /\ \A y \in s : m >= y
  BY <1>1
<1> HIDE DEF m
<1>3. m >= k /\ m <= k /\ m \in Nat /\ k \in Nat
  BY <1>2
<1>4. m = k
  BY <1>3
<1> QED
  BY <1>4 DEF Max, m

\* There is such a fold.
LEMMA AddingExists ==
    ASSUME NEW es, NEW n \in Nat
    PROVE  \E g : IsAdding(g, es, n)
<1> DEFINE F == {k \in Nat : ~\E g : IsAdding(g, es, k)}
<1> SUFFICES ASSUME F # {} PROVE FALSE
  OBVIOUS
<1>1. PICK k \in F : \A j \in F : k <= j
  <2>1. F \in SUBSET Nat
    OBVIOUS
  <2> QED
    BY <2>1, LeastNumber
<1> DEFINE b == [store |-> store, shutdowns |-> shutdowns]
<1>2. k # 0
  <2>1. IsAdding([s \in SUBSET (1..0) |-> b], es, 0)
    <3>1. \A s \in SUBSET (1..0) : s = {}
      OBVIOUS
    <3> QED
      BY <3>1 DEF IsAdding
  <2> QED
    BY <2>1
<1>3. k - 1 \in Nat /\ k - 1 \notin F
  BY <1>1, <1>2
<1>4. PICK g : IsAdding(g, es, k - 1)
  BY <1>3
<1> DEFINE D == SUBSET (1..(k - 1))
           G == [s \in SUBSET (1..k) |->
                   IF k \in s THEN OnSigningPolicy(g[s \ {k}], es[k]) ELSE g[s]]
<1>5. ASSUME NEW s \in D
      PROVE  g[s] = IF s = {} THEN b
                    ELSE OnSigningPolicy(g[s \ {Max(s)}], es[Max(s)])
  BY <1>4 DEF IsAdding
<1>6. ASSUME NEW s \in D PROVE G[s] = g[s] /\ s \in SUBSET (1..k)
  BY <1>1
<1>7. ASSUME NEW s \in SUBSET (1..k)
      PROVE  G[s] = IF s = {} THEN b
                    ELSE OnSigningPolicy(G[s \ {Max(s)}], es[Max(s)])
  <2>1. CASE k \in s
    <3>1. Max(s) = k
      BY <1>1, <2>1, MaxOf
    <3>2. s \ {k} \in D
      <4>1. \A j \in s \ {k} : j \in 1..(k - 1)
        BY <1>1
      <4> QED
        BY <4>1
    <3>3. G[s \ {k}] = g[s \ {k}]
      BY <1>6, <3>2
    <3>4. G[s] = OnSigningPolicy(g[s \ {k}], es[k])
      BY <2>1
    <3> HIDE DEF G
    <3> QED
      BY <2>1, <3>1, <3>3, <3>4
  <2>2. CASE k \notin s
    <3>1. s \in D /\ s \ {Max(s)} \in D
      <4>1. \A j \in s : j \in 1..(k - 1)
        BY <1>1, <2>2
      <4> QED
        BY <4>1
    <3> HIDE DEF G, D
    <3> QED
      BY <1>5, <1>6, <3>1
  <2> QED
    BY <2>1, <2>2
<1>8. IsAdding(G, es, k)
  <2> DEFINE R == [s \in SUBSET (1..k) |->
            IF s = {} THEN b ELSE OnSigningPolicy(G[s \ {Max(s)}], es[Max(s)])]
  <2>1. G = R
    <3>1. \A s \in SUBSET (1..k) : G[s] = R[s]
      BY <1>7
    <3> QED
      BY <3>1, Zenon
  <2> HIDE DEF G
  <2> QED
    BY <2>1 DEF IsAdding
<1> QED
  BY <1>1, <1>8

\* What the storage is after a batch with one policy.
LEMMA AddOne ==
    ASSUME NEW e
    PROVE  AddAll(<<e>>) = OnSigningPolicy([store |-> store, shutdowns |-> shutdowns], e)
<1> DEFINE es == <<e>>
           g == CHOOSE g : IsAdding(g, es, 1)
<1>1. DOMAIN es = 1..1 /\ es[1] = e
  OBVIOUS
<1>2. AddAll(es) = g[1..1]
  <2> HIDE DEF es
  <2> QED
    BY <1>1, AddAllFold
<1>3. IsAdding(g, es, 1)
  <2> HIDE DEF es
  <2>1. \E h : IsAdding(h, es, 1)
    BY AddingExists
  <2> QED
    BY <2>1
<1>4. Max(1..1) = 1
  <2>1. 1 \in 1..1 /\ 1..1 \in SUBSET Nat /\ \A j \in 1..1 : j <= 1
    OBVIOUS
  <2> QED
    BY <2>1, MaxOf
<1> HIDE DEF g, es
<1>5. 1..1 \in SUBSET (1..1) /\ 1..1 # {} /\ {} \in SUBSET (1..1)
      /\ (1..1) \ {1} = {}
  OBVIOUS
<1>6. g[{}] = [store |-> store, shutdowns |-> shutdowns]
  BY <1>3, <1>5 DEF IsAdding
<1>7. g[1..1] = OnSigningPolicy(g[(1..1) \ {1}], es[1])
  BY <1>3, <1>4, <1>5 DEF IsAdding
<1> QED
  BY <1>1, <1>2, <1>5, <1>6, <1>7 DEF es

\* One policy, with the fields spelled out.
LEMMA OnSigningPolicyFields ==
    ASSUME NEW s, NEW d, NEW e
    PROVE  OnSigningPolicy([store |-> s, shutdowns |-> d], e) =
             IF VotersDataCheck(e) /\ CanAdd(s, e)
             THEN [store |-> Append(s, e), shutdowns |-> d]
             ELSE [store |-> s, shutdowns |-> d \cup {RoundStartTS(StartOf(e) + 1)}]
<1> DEFINE x == [store |-> s, shutdowns |-> d]
           u == RoundStartTS(StartOf(e) + 1)
<1>1. x.store = s /\ x.shutdowns = d
  OBVIOUS
<1>2. [x EXCEPT !.store = Append(@, e)] = [store |-> Append(s, e), shutdowns |-> d]
  OBVIOUS
<1>3. [x EXCEPT !.shutdowns = @ \cup {u}] = [store |-> s, shutdowns |-> d \cup {u}]
  OBVIOUS
<1>4. OnSigningPolicy(x, e) = IF VotersDataCheck(e) /\ CanAdd(x.store, e)
                              THEN [x EXCEPT !.store = Append(@, e)]
                              ELSE [x EXCEPT !.shutdowns = @ \cup {u}]
  BY DEF OnSigningPolicy
<1> HIDE DEF x
<1>5. OnSigningPolicy(x, e) = IF VotersDataCheck(e) /\ CanAdd(s, e)
                              THEN [x EXCEPT !.store = Append(@, e)]
                              ELSE [x EXCEPT !.shutdowns = @ \cup {u}]
  BY <1>1, <1>4
<1> QED
  BY <1>2, <1>3, <1>5 DEF x

\* A batch without a bad policy is stored as it came, and has no gaps.
LEMMA AddInitial ==
    ASSUME store = <<>>, shutdowns = {}, NEW es \in Seq(Nat), es # <<>>,
           AddAll(es).shutdowns = {}
    PROVE  AddAll(es).store = es /\ \A i \in DOMAIN es : es[i] = es[1] + i - 1
<1> DEFINE n == Len(es)
           g == CHOOSE g : IsAdding(g, es, n)
<1>1. n \in Nat \ {0} /\ DOMAIN es = 1..n /\ \A i \in 1..n : es[i] \in Nat
  OBVIOUS
<1>2. AddAll(es) = g[1..n]
  <2> HIDE DEF n
  <2> QED
    BY <1>1, AddAllFold
<1>3. IsAdding(g, es, n)
  <2> HIDE DEF n
  <2>1. \E h : IsAdding(h, es, n)
    BY <1>1, AddingExists
  <2> QED
    BY <2>1
<1> HIDE DEF g, n
<1> DEFINE at(k) == g[1..k]
<1>4. at(0) = [store |-> <<>>, shutdowns |-> {}]
  <2>1. 1..0 = {} /\ {} \in SUBSET (1..n)
    OBVIOUS
  <2>2. g[{}] = [store |-> <<>>, shutdowns |-> {}]
    BY <1>3, <2>1 DEF IsAdding
  <2> QED
    BY <2>1, <2>2
<1>5. ASSUME NEW k \in 1..n PROVE at(k) = OnSigningPolicy(at(k - 1), es[k])
  <2>1. 1..k \in SUBSET (1..n) /\ 1..k # {}
    <3>1. \A j \in 1..k : j \in 1..n
      BY <1>1
    <3>2. 1 \in 1..k
      BY <1>1
    <3> QED
      BY <3>1, <3>2
  <2>2. (1..k) \ {k} = 1..(k - 1)
    BY <1>1
  <2>3. Max(1..k) = k
    <3>1. k \in 1..k /\ 1..k \in SUBSET Nat /\ \A j \in 1..k : j <= k
      BY <1>1
    <3> QED
      BY <3>1, MaxOf
  <2>4. g[1..k] = OnSigningPolicy(g[(1..k) \ {k}], es[k])
    BY <1>3, <2>1, <2>3 DEF IsAdding
  <2> QED
    BY <2>2, <2>4
<1> HIDE DEF at
<1> DEFINE Clean(k) ==
             /\ at(k) = [store |-> SubSeq(es, 1, k), shutdowns |-> {}]
             /\ \A i \in 1..k : es[i] = es[1] + i - 1
           Bad(k) == \E s, d : d # {} /\ at(k) = [store |-> s, shutdowns |-> d]
<1>6. \A k \in 0..n : Clean(k) \/ Bad(k)
  <2> DEFINE F == {k \in 0..n : ~(Clean(k) \/ Bad(k))}
  <2> SUFFICES ASSUME F # {} PROVE FALSE
    OBVIOUS
  <2>1. PICK k \in F : \A j \in F : k <= j
    <3>1. F \in SUBSET Nat
      BY <1>1
    <3> HIDE DEF F
    <3> QED
      BY <3>1, LeastNumber
  <2>2. k # 0
    <3>1. Clean(0)
      <4>1. SubSeq(es, 1, 0) = <<>>
        BY <1>1
      <4>2. \A i \in 1..0 : FALSE
        OBVIOUS
      <4> QED
        BY <1>4, <4>1, <4>2
    <3> QED
      BY <2>1, <3>1
  <2>3. k \in 0..n /\ ~(Clean(k) \/ Bad(k))
    <3> HIDE DEF Clean, Bad
    <3> QED
      BY <2>1
  <2>4. k \in 1..n /\ k - 1 \in 0..n /\ ~(k <= k - 1)
    BY <1>1, <2>2, <2>3
  <2>5. k \in 1..n /\ k - 1 \in 0..n /\ ~Clean(k) /\ ~Bad(k)
    <3> HIDE DEF Clean, Bad
    <3> QED
      BY <2>3, <2>4
  <2>6. Clean(k - 1) \/ Bad(k - 1)
    <3> HIDE DEF Clean, Bad
    <3>1. k - 1 \notin F
      <4> HIDE DEF F
      <4> QED
        BY <2>1, <2>4
    <3> QED
      BY <2>4, <3>1
  <2> DEFINE e == es[k]
  <2>7. at(k) = OnSigningPolicy(at(k - 1), e) /\ e \in Nat
    BY <1>1, <1>5, <2>5
  <2> HIDE DEF F
  <2>8. CASE Bad(k - 1)
    <3>1. PICK s, d : d # {} /\ at(k - 1) = [store |-> s, shutdowns |-> d]
      BY <2>8
    <3>2. \/ at(k) = [store |-> Append(s, e), shutdowns |-> d]
          \/ at(k) = [store |-> s, shutdowns |-> d \cup {RoundStartTS(StartOf(e) + 1)}]
      <4>1. at(k) = OnSigningPolicy([store |-> s, shutdowns |-> d], e)
        BY <2>7, <3>1
      <4> HIDE DEF e
      <4>2. OnSigningPolicy([store |-> s, shutdowns |-> d], e) =
                IF VotersDataCheck(e) /\ CanAdd(s, e)
                THEN [store |-> Append(s, e), shutdowns |-> d]
                ELSE [store |-> s, shutdowns |-> d \cup {RoundStartTS(StartOf(e) + 1)}]
        BY OnSigningPolicyFields, Zenon
      <4> QED
        BY <4>1, <4>2, Zenon
    <3>3. d \cup {RoundStartTS(StartOf(e) + 1)} # {}
      OBVIOUS
    <3>4. Bad(k)
      BY <3>1, <3>2, <3>3
    <3> QED
      BY <2>5, <3>4
  <2>9. CASE Clean(k - 1)
    <3> DEFINE s == SubSeq(es, 1, k - 1)
    <3>1. at(k) = IF VotersDataCheck(e) /\ CanAdd(s, e)
                  THEN [store |-> Append(s, e), shutdowns |-> {}]
                  ELSE [store |-> s, shutdowns |-> {} \cup {RoundStartTS(StartOf(e) + 1)}]
      <4>1. at(k - 1) = [store |-> s, shutdowns |-> {}]
        BY <2>9
      <4>2. at(k) = OnSigningPolicy([store |-> s, shutdowns |-> {}], e)
        BY <2>7, <4>1
      <4> HIDE DEF s, e
      <4> QED
        BY <4>2, OnSigningPolicyFields
    <3>2. CanAdd(s, e) /\ at(k) = [store |-> Append(s, e), shutdowns |-> {}]
      <4>1. {} \cup {RoundStartTS(StartOf(e) + 1)} # {}
        OBVIOUS
      <4> QED
        BY <2>5, <3>1, <4>1
    <3>3. Append(s, e) = SubSeq(es, 1, k)
      BY <1>1, <2>5 DEF n
    <3>4. es[k] = es[1] + k - 1
      <4>1. CASE k = 1
        BY <1>1, <4>1
      <4>2. CASE k # 1
        <5>1. s # <<>> /\ Last(s) = es[k - 1]
          <6>1. k - 1 \in 1..n /\ k - 1 \in Nat \ {0} /\ k - 1 <= Len(es)
            BY <1>1, <2>5, <4>2 DEF n
          <6>2. Len(s) = k - 1 /\ s[k - 1] = es[k - 1]
            BY <6>1
          <6> HIDE DEF s
          <6>3. s # <<>>
            BY <6>1, <6>2
          <6> QED
            BY <6>2, <6>3 DEF Last
        <5>2. es[k - 1] + 1 = es[k]
          BY <3>2, <5>1 DEF CanAdd
        <5>3. es[k - 1] = es[1] + (k - 1) - 1
          BY <1>1, <2>5, <2>9, <4>2
        <5> QED
          BY <1>1, <2>5, <5>2, <5>3
      <4> QED
        BY <4>1, <4>2
    <3>5. \A i \in 1..k : i \in 1..(k - 1) \/ i = k
      BY <2>5
    <3>6. Clean(k)
      BY <2>9, <3>2, <3>3, <3>4, <3>5
    <3> QED
      BY <2>5, <3>6
  <2> QED
    BY <2>6, <2>8, <2>9
<1>7. Clean(n) \/ Bad(n)
  BY <1>1, <1>6
<1>8. at(n).shutdowns = {} /\ at(n) = AddAll(es)
  BY <1>2 DEF at
<1>9. Clean(n)
  <2> SUFFICES ASSUME Bad(n) PROVE FALSE
    BY <1>7
  <2>1. PICK s, d : d # {} /\ at(n) = [store |-> s, shutdowns |-> d]
    OBVIOUS
  <2> QED
    BY <1>8, <2>1
<1>10. SubSeq(es, 1, n) = es
  BY <1>1 DEF n
<1> QED
  BY <1>1, <1>8, <1>9, <1>10

-----------------------------------------------------------------------------
(* The invariant.                                                          *)

\* What is on the chain: epochs follow one another, and a policy is out, by the
\* margins of PollingAssumption, before its first round begins.
ChainInv ==
    /\ policies \in Seq([start : Nat, ts : Nat, registry : {"old", "new"},
                         regs : Registrations])
    /\ policies # <<>> /\ StartOf(0) = 0
    /\ \A e \in Epochs :
          /\ Policy(e).ts <= now
          /\ Policy(e).ts < RoundStartTS(StartOf(e))
          /\ e > 0 =>
                /\ Policy(e).ts + MinDelay * CollectDurationSec < RoundStartTS(StartOf(e))
                /\ ExpectedStartTS(e) + MaxFails
                      < RoundStartTS(StartOf(e)) + CollectDurationSec * startOffset
    /\ \A e, f \in Epochs :
          e < f => RoundStartTS(StartOf(e) + Registration) <= Policy(f).ts

\* The lag of the database and the queries that fail in a row are bounded.
TimesInv == RoundsInv /\ now <= indexed + MaxLag /\ fails \in 0..MaxFails

\* The listener has made its initial query.
Listening == lPc \notin {"off", "start"}

\* The query that finds the policy of epoch e is due by time t.
Awaited(e, t) ==
    \/ t + 2 <= Policy(e).ts + MaxLag + CollectDurationSec + fails
    \/ t + CollectDurationSec * startOffset <= ExpectedStartTS(e) + fails

\* The policies up to lastEpoch are those of the queries so far.  At most one
\* is not among them, and it will be found before its first round begins.
ListenerInv ==
    /\ lPc \in {"off", "start", "sendInitial", "wait", "poll", "send"}
    /\ lPc = "off" <=> mPc = "off"
    /\ Listening =>
          /\ lastEpoch \in Epochs /\ latestQuery \in Nat /\ latestQuery <= now
          /\ Policy(lastEpoch).ts <= latestQuery
          /\ \A e \in Epochs : e > lastEpoch =>
                /\ e = lastEpoch + 1
                /\ latestQuery < Policy(e).ts
                /\ now < RoundStartTS(StartOf(e))
    /\ lPc \in {"wait", "poll"} =>
          /\ wake \in Nat /\ wake + 1 <= now + CollectDurationSec
          /\ lastEpoch + 1 \in Epochs =>
                Awaited(lastEpoch + 1, now) /\ Awaited(lastEpoch + 1, wake)
    /\ lPc = "send" => lastEpoch + 1 \in Epochs /\ batch = <<lastEpoch + 1>>

\* No message of a round before the one of the policy of epoch e comes.
Covers(e) ==
    \/ StartOf(e) <= firstVotes /\ StartOf(e) <= RoundIDForTS(from)
    \/ RoundStartTS(StartOf(e)) + ChooseDurationSec + Late < now

\* The policies of the initial query, the latest one last.
InitialBatch(b) ==
    /\ b \in Seq(Epochs) /\ b # <<>>
    /\ b[Len(b)] = lastEpoch /\ Covers(b[1])

\* Policies on their way to the manager.  No time passes meanwhile.
ChannelInv ==
    /\ lPc \in {"off", "start", "sendInitial", "send"} => voters = <<>>
    /\ lPc \in {"start", "sendInitial"} => mPc = "init"
    /\ lPc = "start" =>
          \E t \in T0..now : /\ now <= t + MaxLag
                             /\ from = LastCollectPhaseStart(t)
                             /\ firstVotes = NextChooseEnd(t)
    /\ lPc = "send" => mPc = "run"
    /\ lPc = "sendInitial" => latestQuery = now /\ InitialBatch(batch)
    /\ mPc = "init" /\ lPc \in {"wait", "poll"} =>
          \E b \in Seq(Epochs) : voters = <<b>> /\ InitialBatch(b)
    /\ voters # <<>> => latestQuery = now
    /\ mPc = "run" /\ voters # <<>> =>
          /\ voters = <<<<lastEpoch>>>> /\ lastEpoch > 0
          /\ now < RoundStartTS(StartOf(lastEpoch))

\* The last policy the manager was given.
Given == IF voters = <<>> THEN lastEpoch ELSE lastEpoch - 1

\* A sequence of policies without a gap.
NoGap(s) == s \in Seq(Nat) /\ s # <<>> /\ \A i \in DOMAIN s : s[i] = s[1] + i - 1

\* The manager holds the policies up to the last one it was given, or will shut
\* down when the first round of the missing one has been collected.
StoreInv ==
    /\ mPc # "run" => store = <<>> /\ shutdowns = {} /\ rounds = {}
    /\ mPc = "run" =>
          /\ NoGap(store) /\ Last(store) <= Given
          /\ Last(store) < Given =>
                RoundStartTS(StartOf(Last(store) + 1) + 1) \in shutdowns
          /\ Covers(store[1])
    /\ \A s \in shutdowns : s \in Nat /\ now <= s

\* The policy of epoch e is the one in force in round r.
InForce(e, r) ==
    /\ e \in Epochs /\ StartOf(e) <= r
    /\ \A f \in Epochs : StartOf(f) <= r => f <= e

\* A round has the right voters, or the client shuts down before they count.
JudgedInv ==
    /\ \A x \in rounds : \/ InForce(x.epoch, x.id)
                         \/ \E s \in shutdowns : s <= RoundStartTS(x.id + 1)
    /\ misjudged = {} /\ refused = {}

\* All of it.
Inv == ChainInv /\ TimesInv /\ ListenerInv /\ ChannelInv /\ StoreInv /\ JudgedInv

-----------------------------------------------------------------------------
(* Times of rounds.                                                        *)

\* The constants are numbers.
LEMMA Constants ==
    /\ T0 \in Nat /\ T0 > 0
    /\ CollectDurationSec \in Nat /\ CollectDurationSec > 1
    /\ ChooseDurationSec \in Nat
    /\ MinDelay \in Nat /\ Registration \in Nat /\ MaxLag \in Nat /\ Late \in Nat
    /\ MaxFails \in Nat /\ VotersCap \in Nat \ {0}
    /\ T0RewardDelay \in Nat /\ RewardEpochLength \in Nat /\ InitialPolicies \in Nat
BY TimingAssumption, PoliciesAssumption

\* k rounds later.
LEMMA RoundStartPlus ==
    ASSUME NEW n \in Nat, NEW k \in Nat
    PROVE  /\ RoundStartTS(n + k) = RoundStartTS(n) + k * CollectDurationSec
           /\ k * CollectDurationSec \in Nat
<1> DEFINE c == CollectDurationSec
<1>1. c \in Nat /\ T0 \in Nat
  BY Constants
<1>2. RoundStartTS(n) = T0 + n * c /\ RoundStartTS(n + k) = T0 + (n + k) * c
  BY DEF RoundStartTS, c
<1> HIDE DEF c
<1>3. (n + k) * c = n * c + k * c /\ n * c \in Nat /\ k * c \in Nat
  BY <1>1
<1> QED
  BY <1>1, <1>2, <1>3 DEF c

\* Rounds begin in their order.
LEMMA RoundStartOrder ==
    ASSUME NEW m \in Nat, NEW n \in Nat
    PROVE  /\ m <= n <=> RoundStartTS(m) <= RoundStartTS(n)
           /\ m < n <=> RoundStartTS(m) < RoundStartTS(n)
           /\ RoundStartTS(n + 1) = RoundStartTS(n) + CollectDurationSec
<1>1. RoundStartTS(m) \in Nat /\ RoundStartTS(n) \in Nat
  BY RoundStartType
<1>2. m < n => RoundStartTS(m) + CollectDurationSec <= RoundStartTS(n)
  BY RoundStartMonotone
<1>3. n < m => RoundStartTS(n) + CollectDurationSec <= RoundStartTS(m)
  BY RoundStartMonotone
<1>4. RoundStartTS(n + 1) = RoundStartTS(n) + 1 * CollectDurationSec
  BY RoundStartPlus
<1> QED
  BY <1>1, <1>2, <1>3, <1>4, Constants

\* The round of a time.
LEMMA RoundOfTime ==
    ASSUME NEW t \in Nat, T0 <= t
    PROVE  LET r == RoundIDForTS(t)
           IN  r \in Nat /\ RoundStartTS(r) <= t /\ t < RoundStartTS(r + 1)
BY RoundOfTimestamp

\* The expected start of an epoch is T0RewardDelay % CollectDurationSec into its round.
LEMMA ExpectedRound ==
    ASSUME NEW e \in Nat
    PROVE  LET r == RoundIDForTS(ExpectedStartTS(e))
           IN  /\ ExpectedStartTS(e) \in Nat /\ r \in Nat
               /\ ExpectedStartTS(e) = RoundStartTS(r) + (T0RewardDelay % CollectDurationSec)
               /\ T0RewardDelay % CollectDurationSec \in Nat
<1> DEFINE c == CollectDurationSec
           d == T0RewardDelay
           l == RewardEpochLength
           x == ExpectedStartTS(e)
           r == (d \div c) + l * e
<1>1. /\ c \in Nat \ {0} /\ d \in Nat /\ l \in Nat /\ T0 \in Nat
  BY Constants
<1>2. x = T0 + d + l * c * e
  BY DEF ExpectedStartTS, ExpectedRewardEpochStartTS
<1>3. \A n \in Nat : RoundStartTS(n) = T0 + n * c
  BY DEF RoundStartTS
<1> HIDE DEF c, d, l, x
<1>4. /\ d \div c \in Nat /\ d % c \in Nat /\ d % c < c
      /\ d = (d \div c) * c + (d % c)
  BY <1>1
<1>5. l * e \in Nat /\ l * c * e = (l * e) * c
  BY <1>1
<1>6. r \in Nat /\ r * c = (d \div c) * c + (l * e) * c /\ r * c \in Nat
      /\ (d \div c) * c \in Nat /\ (l * e) * c \in Nat
  BY <1>1, <1>4, <1>5
<1> HIDE DEF r
<1>7. x = RoundStartTS(r) + (d % c) /\ x \in Nat
  <2> DEFINE u == (d \div c) * c
             v == (l * e) * c
             w == r * c
  <2>1. /\ u \in Nat /\ v \in Nat /\ w = u + v
        /\ d = u + (d % c) /\ x = T0 + d + v /\ RoundStartTS(r) = T0 + w
    BY <1>2, <1>3, <1>4, <1>5, <1>6
  <2> HIDE DEF u, v, w
  <2> QED
    BY <1>1, <1>4, <2>1
<1>8. T0 <= x /\ RoundStartTS(r) <= x /\ x < RoundStartTS(r + 1)
  <2>1. RoundStartTS(r + 1) = RoundStartTS(r) + c
    BY <1>6, RoundStartOrder DEF c
  <2>2. RoundStartTS(r) \in Nat /\ T0 <= RoundStartTS(r)
    BY <1>6, RoundStartType
  <2> QED
    BY <1>1, <1>4, <1>7, <2>1, <2>2
<1>9. RoundIDForTS(x) = r
  BY <1>6, <1>7, <1>8, RoundOfTimestamp
<1> QED
  BY <1>4, <1>6, <1>7, <1>9 DEF x, d, c

\* When a policy emitted at time t is to begin.
LEMMA NewStart ==
    ASSUME NEW t \in Nat, T0 <= t, NEW e \in Nat,
           NEW s, s = Larger(RoundIDForTS(ExpectedStartTS(e)),
                             RoundIDForTS(t) + MinDelay + 1)
    PROVE  /\ s \in Nat
           /\ t + MinDelay * CollectDurationSec < RoundStartTS(s)
           /\ t < RoundStartTS(s)
           /\ ExpectedStartTS(e) + MaxFails
                 < RoundStartTS(s) + CollectDurationSec * startOffset
<1> DEFINE a == RoundIDForTS(ExpectedStartTS(e))
           b == RoundIDForTS(t)
<1>1. /\ ExpectedStartTS(e) \in Nat /\ a \in Nat
      /\ ExpectedStartTS(e) = RoundStartTS(a) + (T0RewardDelay % CollectDurationSec)
      /\ T0RewardDelay % CollectDurationSec \in Nat
  BY ExpectedRound
<1>2. b \in Nat /\ t < RoundStartTS(b + 1)
  BY RoundOfTime
<1> HIDE DEF a, b
<1>3. s \in Nat /\ a <= s /\ (b + 1) + MinDelay <= s
  BY <1>1, <1>2, Constants DEF Larger, a, b
<1>4. /\ RoundStartTS(a) \in Nat /\ RoundStartTS(b + 1) \in Nat /\ RoundStartTS(s) \in Nat
      /\ RoundStartTS((b + 1) + MinDelay) \in Nat
  BY <1>1, <1>2, <1>3, Constants, RoundStartType
<1>5. /\ RoundStartTS(a) <= RoundStartTS(s)
      /\ RoundStartTS((b + 1) + MinDelay) <= RoundStartTS(s)
  BY <1>1, <1>2, <1>3, Constants, RoundStartOrder
<1>6. /\ RoundStartTS((b + 1) + MinDelay) = RoundStartTS(b + 1) + MinDelay * CollectDurationSec
      /\ MinDelay * CollectDurationSec \in Nat
  BY <1>2, Constants, RoundStartPlus
<1>7. startOffset \in Nat /\ CollectDurationSec * startOffset \in Nat
  <2>1. RewardEpochLength \div 20 + 1 \in Nat
    BY Constants
  <2>2. startOffset \in Nat
    BY <2>1 DEF startOffset
  <2> QED
    BY <2>2, Constants
<1>8. (T0RewardDelay % CollectDurationSec) + MaxFails < CollectDurationSec * startOffset
  BY PollingAssumption
<1> HIDE DEF startOffset
<1> QED
  BY <1>1, <1>2, <1>3, <1>4, <1>5, <1>6, <1>7, <1>8, Constants

-----------------------------------------------------------------------------
(* The chain.                                                              *)

\* The policy of an epoch.
LEMMA PolicyType ==
    ASSUME ChainInv
    PROVE  /\ Len(policies) \in Nat \ {0}
           /\ \A e : e \in Epochs <=> e \in Nat /\ e < Len(policies)
           /\ 0 \in Epochs /\ StartOf(0) = 0
           /\ \A e \in Epochs : /\ e \in Nat /\ StartOf(e) \in Nat /\ Policy(e).ts \in Nat
                                /\ RoundStartTS(StartOf(e)) \in Nat
                                /\ Policy(e).ts <= now
                                /\ Policy(e).ts < RoundStartTS(StartOf(e))
<1> DEFINE n == Len(policies)
           P == [start : Nat, ts : Nat, registry : {"old", "new"}, regs : Registrations]
<1>1. policies \in Seq(P) /\ policies # <<>>
  BY DEF ChainInv
<1> HIDE DEF P
<1>2. n \in Nat \ {0} /\ \A i \in 1..n : policies[i] \in P
  BY <1>1
<1> HIDE DEF n
<1>3. Epochs = 0..(n - 1)
  BY DEF Epochs, n
<1>4. \A e : e \in Epochs <=> e \in Nat /\ e < n
  BY <1>2, <1>3
<1>5. \A e \in Epochs : e \in Nat /\ StartOf(e) \in Nat /\ Policy(e).ts \in Nat
  BY <1>2, <1>3 DEF StartOf, Policy, P
<1>6. \A e \in Epochs : RoundStartTS(StartOf(e)) \in Nat
  BY <1>5, RoundStartType
<1>7. 0 \in Epochs /\ StartOf(0) = 0
  BY <1>2, <1>4 DEF ChainInv
<1> QED
  BY <1>2, <1>4, <1>5, <1>6, <1>7 DEF ChainInv, n

\* A later policy begins later.
LEMMA StartsOrdered ==
    ASSUME ChainInv, NEW e \in Epochs, NEW f \in Epochs, e < f
    PROVE  StartOf(e) + Registration < StartOf(f)
<1>1. StartOf(e) \in Nat /\ StartOf(f) \in Nat /\ Policy(f).ts \in Nat /\ Registration \in Nat
      /\ RoundStartTS(StartOf(f)) \in Nat /\ Policy(f).ts < RoundStartTS(StartOf(f))
  BY PolicyType, Constants
<1>2. RoundStartTS(StartOf(e) + Registration) <= Policy(f).ts
  BY DEF ChainInv
<1>3. RoundStartTS(StartOf(e) + Registration) \in Nat
  BY <1>1, RoundStartType
<1>4. RoundStartTS(StartOf(e) + Registration) < RoundStartTS(StartOf(f))
  BY <1>1, <1>2, <1>3
<1> QED
  BY <1>1, <1>4, RoundStartOrder

\* What SigningPolicyInitialized adds.
LEMMA PolicyEmitted ==
    ASSUME ChainInv, SigningPolicyInitialized
    PROVE  \E n \in Nat :
               /\ n = Len(policies)
               /\ Epochs' = Epochs \cup {n} /\ n \notin Epochs /\ n > 0 /\ n - 1 \in Epochs
               /\ \A e \in Epochs : e < n /\ Policy(e)' = Policy(e) /\ StartOf(e)' = StartOf(e)
               /\ RoundStartTS(StartOf(n - 1) + Registration) <= now
               /\ now' = now /\ Policy(n)'.ts = now
               /\ StartOf(n)' = Larger(RoundIDForTS(ExpectedStartTS(n)),
                                       RoundIDForTS(now) + MinDelay + 1)
               /\ \E p \in [start : {StartOf(n)'}, ts : {now},
                            registry : {"old", "new"}, regs : Registrations] :
                     policies' = Append(policies, p)
<1> DEFINE P == [start : Nat, ts : Nat, registry : {"old", "new"}, regs : Registrations]
<1>0. PICK n \in Nat \ {0} : n = Len(policies)
  BY PolicyType
<1>1. policies \in Seq(P)
  BY DEF ChainInv
<1> HIDE DEF P
<1> DEFINE s == Larger(RoundIDForTS(ExpectedStartTS(n)), RoundIDForTS(now) + MinDelay + 1)
<1>2. /\ RoundStartTS(StartOf(n - 1) + Registration) <= now
      /\ now' = now
      /\ \E regs \in Registrations :
            policies' = Append(policies,
                [start |-> s, ts |-> now,
                 registry |-> IF n <= BreakingEpoch THEN "old" ELSE "new",
                 regs |-> regs])
  BY <1>0 DEF SigningPolicyInitialized
<1> HIDE DEF s
<1>3. PICK p \in [start : {s}, ts : {now}, registry : {"old", "new"}, regs : Registrations] :
          policies' = Append(policies, p)
  <2>1. PICK regs \in Registrations :
            policies' = Append(policies,
                [start |-> s, ts |-> now,
                 registry |-> IF n <= BreakingEpoch THEN "old" ELSE "new",
                 regs |-> regs])
    BY <1>2
  <2>2. (IF n <= BreakingEpoch THEN "old" ELSE "new") \in {"old", "new"}
    OBVIOUS
  <2> QED
    BY <2>1, <2>2
<1>4. p.start = s /\ p.ts = now
  BY <1>3
<1>5. /\ Len(policies') = n + 1 /\ policies'[n + 1] = p
      /\ \A i \in 1..n : policies'[i] = policies[i]
  BY <1>0, <1>1, <1>3
<1>6. Epochs = 0..(n - 1) /\ Epochs' = 0..n
  BY <1>0, <1>5 DEF Epochs
<1>7. Epochs' = Epochs \cup {n} /\ n \notin Epochs /\ n > 0 /\ n - 1 \in Epochs
  BY <1>0, <1>6
<1>8. \A e \in Epochs : e < n /\ Policy(e)' = Policy(e)
  BY <1>0, <1>5, <1>6 DEF Policy
<1>9. \A e \in Epochs : StartOf(e)' = StartOf(e)
  BY <1>8 DEF StartOf
<1>10. Policy(n)' = p /\ StartOf(n)' = s
  BY <1>4, <1>5 DEF Policy, StartOf
<1> QED
  BY <1>0, <1>2, <1>3, <1>4, <1>7, <1>8, <1>9, <1>10 DEF s

\* The other actions leave the chain alone, but for the time.
LEMMA ChainKept ==
    ASSUME ChainInv, TimesInv, policies' = policies, now' \in Nat, now <= now'
    PROVE  ChainInv'
<1>1. \A e \in Epochs : Policy(e).ts \in Nat
  BY PolicyType
<1>2. now \in Nat
  BY DEF TimesInv, RoundsInv
<1>3. \A e \in Epochs : Policy(e).ts <= now'
  BY <1>1, <1>2 DEF ChainInv
<1>4. Epochs' = Epochs /\ \A e : Policy(e)' = Policy(e) /\ StartOf(e)' = StartOf(e)
  BY DEF Epochs, Policy, StartOf
<1> QED
  BY <1>3, <1>4 DEF ChainInv

\* The policy that is emitted is in time for its first round.
LEMMA ChainEmits ==
    ASSUME ChainInv, TimesInv, SigningPolicyInitialized
    PROVE  ChainInv'
<1> DEFINE P == [start : Nat, ts : Nat, registry : {"old", "new"}, regs : Registrations]
<1>1. PICK n \in Nat :
        /\ Epochs' = Epochs \cup {n} /\ n \notin Epochs /\ n > 0 /\ n - 1 \in Epochs
        /\ \A e \in Epochs : e < n /\ Policy(e)' = Policy(e) /\ StartOf(e)' = StartOf(e)
        /\ RoundStartTS(StartOf(n - 1) + Registration) <= now
        /\ now' = now /\ Policy(n)'.ts = now
        /\ StartOf(n)' = Larger(RoundIDForTS(ExpectedStartTS(n)),
                                RoundIDForTS(now) + MinDelay + 1)
        /\ \E p \in [start : {StartOf(n)'}, ts : {now},
                     registry : {"old", "new"}, regs : Registrations] :
              policies' = Append(policies, p)
  BY PolicyEmitted
<1> DEFINE s == StartOf(n)'
<1>0. now \in Nat /\ T0 <= now
  BY DEF TimesInv, RoundsInv
<1>2. /\ s \in Nat
      /\ now + MinDelay * CollectDurationSec < RoundStartTS(s)
      /\ now < RoundStartTS(s)
      /\ ExpectedStartTS(n) + MaxFails < RoundStartTS(s) + CollectDurationSec * startOffset
  <2> HIDE DEF s
  <2>1. s = Larger(RoundIDForTS(ExpectedStartTS(n)), RoundIDForTS(now) + MinDelay + 1)
    BY <1>1 DEF s
  <2> QED
    BY <1>0, <2>1, NewStart
<1>3. policies' \in Seq(P) /\ policies' # <<>>
  <2>1. PICK p \in [start : {s}, ts : {now}, registry : {"old", "new"}, regs : Registrations] :
            policies' = Append(policies, p)
    BY <1>1
  <2>2. p \in P
    <3> HIDE DEF s
    <3> QED
      BY <1>0, <1>2, <2>1
  <2>3. policies \in Seq(P)
    BY DEF ChainInv
  <2> HIDE DEF P
  <2> QED
    BY <2>1, <2>2, <2>3
<1>5. \A e \in Epochs : RoundStartTS(StartOf(e) + Registration) <= now
  <2> SUFFICES ASSUME NEW e \in Epochs PROVE RoundStartTS(StartOf(e) + Registration) <= now
    OBVIOUS
  <2>1. /\ e \in Nat /\ e < n /\ StartOf(e) \in Nat /\ StartOf(n - 1) \in Nat
        /\ Registration \in Nat
    BY <1>1, PolicyType, Constants
  <2>2. StartOf(e) <= StartOf(n - 1)
    <3>1. CASE e < n - 1
      BY <1>1, <2>1, <3>1, StartsOrdered
    <3>2. CASE e = n - 1
      BY <2>1, <3>2
    <3> QED
      BY <1>1, <2>1, <3>1, <3>2
  <2> DEFINE a == StartOf(e) + Registration
             b == StartOf(n - 1) + Registration
  <2>3. a \in Nat /\ b \in Nat /\ a <= b
    BY <2>1, <2>2
  <2> HIDE DEF a, b
  <2>4. RoundStartTS(a) <= RoundStartTS(b)
    BY <2>3, RoundStartOrder
  <2>5. RoundStartTS(a) \in Nat /\ RoundStartTS(b) \in Nat
    BY <2>3, RoundStartType
  <2> QED
    BY <1>0, <1>1, <2>4, <2>5 DEF a, b
<1>6. StartOf(0)' = 0
  BY <1>1, PolicyType
<1>7. ASSUME NEW e \in Epochs'
      PROVE  /\ Policy(e)'.ts <= now'
             /\ Policy(e)'.ts < RoundStartTS(StartOf(e)')
             /\ e > 0 =>
                  /\ Policy(e)'.ts + MinDelay * CollectDurationSec
                        < RoundStartTS(StartOf(e)')
                  /\ ExpectedStartTS(e) + MaxFails
                        < RoundStartTS(StartOf(e)') + CollectDurationSec * startOffset
  <2>1. CASE e \in Epochs
    BY <1>1, <2>1 DEF ChainInv
  <2>2. CASE e = n
    BY <1>0, <1>1, <1>2, <2>2
  <2> QED
    BY <1>1, <2>1, <2>2
<1>8. ASSUME NEW e \in Epochs', NEW f \in Epochs', e < f
      PROVE  RoundStartTS(StartOf(e)' + Registration) <= Policy(f)'.ts
  <2>1. \A g \in Epochs : g \in Nat /\ g < n
    BY <1>1, PolicyType
  <2>2. CASE f \in Epochs
    <3>1. e \in Epochs
      BY <1>1, <1>8, <2>1, <2>2
    <3> QED
      BY <1>1, <1>8, <2>2, <3>1 DEF ChainInv
  <2>3. CASE f = n
    <3>1. e \in Epochs
      BY <1>1, <1>8, <2>3
    <3> QED
      BY <1>1, <1>5, <2>3, <3>1
  <2> QED
    BY <1>1, <2>2, <2>3
<1> QED
  BY <1>3, <1>6, <1>7, <1>8 DEF ChainInv

\* One step.
LEMMA ChainStep == ChainInv /\ TimesInv /\ [Next]_vars => ChainInv'
<1> SUFFICES ASSUME ChainInv, TimesInv, [Next]_vars PROVE ChainInv'
  OBVIOUS
<1>1. CASE SigningPolicyInitialized
  BY <1>1, ChainEmits
<1>2. CASE ~SigningPolicyInitialized
  <2>1. policies' = policies /\ (now' = now \/ now' = now + 1)
    BY <1>2 DEF Next, vars, chainVars, IndexerCatchesUp, TimePasses, Start, Crash,
       scheduledShutdown, Ends, SigningPolicyInitializedListener, queryNextSPI,
       queryNextSPIFails, spiTargetedListenerSends, RunInitial, OnSigningPolicies,
       OnRequest, OnBitVotes
  <2>2. now \in Nat
    BY DEF TimesInv, RoundsInv
  <2> QED
    BY <2>1, <2>2, ChainKept
<1> QED
  BY <1>1, <1>2

\* The database is never further behind than MaxLag, and MaxFails queries fail
\* in a row.
LEMMA TimesStep == TimesInv /\ [Next]_vars => TimesInv'
<1> SUFFICES ASSUME TimesInv, [Next]_vars PROVE TimesInv'
  OBVIOUS
<1>1. RoundsInv /\ RoundsInv'
  BY RoundsStep DEF TimesInv
<1>2. now \in Nat /\ indexed \in Nat /\ MaxLag \in Nat /\ MaxFails \in Nat
  BY <1>1, Constants DEF RoundsInv
<1>3. /\ \/ now' = now /\ indexed' = indexed
         \/ now' = now /\ indexed' = now
         \/ now' = now + 1 /\ indexed' = indexed /\ now - indexed < MaxLag
      /\ fails' = fails \/ fails' = 0 \/ (fails < MaxFails /\ fails' = fails + 1)
  BY DEF Next, vars, chainVars, boundVars, SigningPolicyInitialized, IndexerCatchesUp,
     TimePasses, Start, Crash, scheduledShutdown, Ends, SigningPolicyInitializedListener,
     queryNextSPI, queryNextSPIFails, spiTargetedListenerSends, RunInitial,
     OnSigningPolicies, OnRequest, OnBitVotes
<1> QED
  BY <1>1, <1>2, <1>3 DEF TimesInv

-----------------------------------------------------------------------------
(* The listener.                                                           *)

\* What PollingAssumption says, and that its terms are numbers.
LEMMA HeadStart ==
    /\ startOffset \in Nat /\ CollectDurationSec * startOffset \in Nat
    /\ MinDelay * CollectDurationSec \in Nat
    /\ MaxLag > 0
    /\ MaxLag + CollectDurationSec + MaxFails <= MinDelay * CollectDurationSec + 2
<1>1. RewardEpochLength \div 20 + 1 \in Nat
  BY Constants
<1>2. startOffset \in Nat
  BY <1>1 DEF startOffset
<1>3. CollectDurationSec * startOffset \in Nat /\ MinDelay * CollectDurationSec \in Nat
  BY <1>2, Constants
<1> HIDE DEF startOffset
<1> QED
  BY <1>2, <1>3, PollingAssumption

\* A query that is due by a time before u is due by u as well.
LEMMA AwaitedEarlier ==
    ASSUME ChainInv, TimesInv, NEW e \in Epochs, NEW t \in Nat, NEW u \in Nat, t <= u,
           Awaited(e, u)
    PROVE  Awaited(e, t)
<1>1. e \in Nat /\ Policy(e).ts \in Nat
  BY PolicyType
<1>2. ExpectedStartTS(e) \in Nat /\ fails \in Nat
  BY <1>1, ExpectedRound, Constants DEF TimesInv
<1> HIDE DEF startOffset, ExpectedStartTS, Policy
<1> QED
  BY <1>1, <1>2, HeadStart, Constants DEF Awaited

\* A policy that is awaited is found before its first round begins.
LEMMA AwaitedInTime ==
    ASSUME ChainInv, TimesInv, NEW e \in Epochs, e > 0, NEW t \in Nat, Awaited(e, t)
    PROVE  t < RoundStartTS(StartOf(e))
<1>1. e \in Nat /\ Policy(e).ts \in Nat /\ RoundStartTS(StartOf(e)) \in Nat
  BY PolicyType
<1>2. ExpectedStartTS(e) \in Nat /\ fails \in Nat /\ fails <= MaxFails
  BY <1>1, ExpectedRound, Constants DEF TimesInv
<1>3. /\ Policy(e).ts + MinDelay * CollectDurationSec < RoundStartTS(StartOf(e))
      /\ ExpectedStartTS(e) + MaxFails
            < RoundStartTS(StartOf(e)) + CollectDurationSec * startOffset
  BY DEF ChainInv
<1>4. CASE t + 2 <= Policy(e).ts + MaxLag + CollectDurationSec + fails
  BY <1>1, <1>2, <1>3, <1>4, HeadStart, Constants
<1>5. CASE t + CollectDurationSec * startOffset <= ExpectedStartTS(e) + fails
  BY <1>1, <1>2, <1>3, <1>5, HeadStart, Constants
<1> QED
  BY <1>4, <1>5 DEF Awaited

\* A query finds the policy of the next epoch or none: several logs in one
\* answer, which queryNextSPI reports as an error, do not happen.
LEMMA NewLogsOne ==
    ASSUME ChainInv, TimesInv, ListenerInv, lPc \in {"wait", "poll"}
    PROVE  \/ /\ newLogs = {}
              /\ lastEpoch + 1 \in Epochs => indexed < Policy(lastEpoch + 1).ts
           \/ /\ lastEpoch + 1 \in Epochs /\ newLogs # {}
              /\ InOrder(newLogs) = <<lastEpoch + 1>>
<1> DEFINE k == lastEpoch + 1
<1>1. /\ lastEpoch \in Epochs
      /\ \A e \in Epochs : e > lastEpoch => e = k /\ latestQuery < Policy(e).ts
  BY DEF ListenerInv, Listening
<1>2. lastEpoch \in Nat /\ k \in Nat /\ indexed \in Nat
  BY <1>1, PolicyType DEF TimesInv, RoundsInv
<1>3. \A e \in Epochs : e \in Nat /\ Policy(e).ts \in Nat /\ Policy(e).ts <= now
  BY PolicyType
<1>4. k > lastEpoch
  BY <1>2
<1>5. \A e \in newLogs : e = k /\ k \in Epochs
  BY <1>1 DEF newLogs
<1>6. k \in newLogs <=> k \in Epochs /\ Policy(k).ts <= indexed
  BY <1>1, <1>3, <1>4 DEF newLogs
<1> HIDE DEF k
<1>7. CASE newLogs = {}
  <2>1. k \in Epochs => indexed < Policy(k).ts
    BY <1>2, <1>3, <1>6, <1>7
  <2> QED
    BY <1>7, <2>1 DEF k
<1>8. CASE newLogs # {}
  <2>1. newLogs = {k} /\ k \in Epochs
    BY <1>5, <1>8
  <2>2. k..k = {k}
    BY <1>2
  <2>3. k <= k
    BY <1>2
  <2>4. InOrder(k..k) = <<k>>
    BY <1>2, <2>3, InOrderInterval
  <2> QED
    BY <1>8, <2>1, <2>2, <2>4 DEF k
<1> QED
  BY <1>7, <1>8

\* The initial query gives the last InitialPolicies policies.
LEMMA InitialQuery ==
    ASSUME ChainInv, TimesInv, Last(policies).ts <= indexed
    PROVE  \E h \in Epochs, l \in Epochs :
              /\ l + 1 = Len(policies) /\ h <= l
              /\ h = 0 \/ h + InitialPolicies = Len(policies)
              /\ LET b == InOrder(initialLogs)
                 IN  /\ b \in Seq(Epochs) /\ b # <<>> /\ b[1] = h
                     /\ b[Len(b)] = l /\ Last(b) = l
<1>0. PICK n \in Nat \ {0} : n = Len(policies)
  BY PolicyType
<1> DEFINE l == n - 1
<1>1. \A e : e \in Epochs <=> e \in Nat /\ e < n
  BY <1>0, PolicyType
<1>2. l \in Epochs /\ l \in Nat
  BY <1>1
<1>3. Last(policies) = Policy(l)
  BY <1>0 DEF Last, Policy
<1>4. \A e \in Epochs : Policy(e).ts <= indexed
  <2> SUFFICES ASSUME NEW e \in Epochs, e # l PROVE Policy(e).ts <= indexed
    BY <1>3
  <2>1. e \in Nat /\ e < l
    BY <1>1
  <2>2. RoundStartTS(StartOf(e) + Registration) <= Policy(l).ts
    BY <1>2, <2>1 DEF ChainInv
  <2>3. /\ StartOf(e) \in Nat /\ Policy(e).ts \in Nat /\ Policy(l).ts \in Nat
        /\ Policy(e).ts < RoundStartTS(StartOf(e)) /\ RoundStartTS(StartOf(e)) \in Nat
    BY <1>2, PolicyType
  <2>4. /\ RoundStartTS(StartOf(e) + Registration) =
               RoundStartTS(StartOf(e)) + Registration * CollectDurationSec
        /\ Registration * CollectDurationSec \in Nat
    BY <2>3, Constants, RoundStartPlus
  <2>5. indexed \in Nat
    BY DEF TimesInv, RoundsInv
  <2> QED
    BY <1>3, <2>2, <2>3, <2>4, <2>5
<1>5. initialLogs = {e \in Epochs : Cardinality({f \in Epochs : e < f}) < InitialPolicies}
  <2>1. {e \in Epochs : Policy(e).ts <= indexed} = Epochs
    BY <1>4
  <2> QED
    BY <2>1 DEF initialLogs
<1>6. ASSUME NEW e \in Epochs PROVE Cardinality({f \in Epochs : e < f}) = l - e
  <2>1. e \in Nat /\ e <= l
    BY <1>1
  <2>2. {f \in Epochs : e < f} = (e + 1)..l
    BY <1>1, <2>1
  <2>3. Cardinality((e + 1)..l) = IF e + 1 > l THEN 0 ELSE l - (e + 1) + 1
    BY <1>2, <2>1, FS_Interval
  <2> HIDE DEF l
  <2>4. (IF e + 1 > l THEN 0 ELSE l - (e + 1) + 1) = l - e
    BY <1>2, <2>1
  <2> QED
    BY <2>2, <2>3, <2>4
<1> DEFINE h == IF n <= InitialPolicies THEN 0 ELSE n - InitialPolicies
<1>7. /\ h \in Nat /\ h <= l /\ h \in Epochs
      /\ h = 0 \/ h + InitialPolicies = n
  <2>1. InitialPolicies \in Nat \ {0}
    BY PoliciesAssumption
  <2> QED
    BY <1>1, <2>1
<1>8. initialLogs = h..l
  <2>1. \A e \in Epochs : e \in initialLogs <=> l - e < InitialPolicies
    BY <1>5, <1>6
  <2>2. \A e \in initialLogs : e \in Epochs
    BY <1>5
  <2>3. \A e \in Nat : e <= l => (l - e < InitialPolicies <=> h <= e)
    BY Constants
  <2>4. \A e : e \in Epochs <=> e \in Nat /\ e <= l
    BY <1>1
  <2> HIDE DEF h, l
  <2>5. \A e : e \in initialLogs <=> e \in h..l
    BY <1>2, <1>7, <2>1, <2>2, <2>3, <2>4
  <2> QED
    BY <2>5
<1> HIDE DEF h, l
<1> DEFINE b == InOrder(h..l)
<1>9. b \in Seq(h..l) /\ b # <<>> /\ b[1] = h /\ b[Len(b)] = l
  BY <1>2, <1>7, InOrderInterval
<1> HIDE DEF b
<1>10. h..l \subseteq Epochs
  <2>1. \A e \in h..l : e \in Nat /\ e <= l
    BY <1>2, <1>7
  <2> QED
    BY <1>1, <2>1 DEF l
<1>11. b \in Seq(Epochs) /\ Last(b) = l
  <2>1. b \in Seq(Epochs)
    BY <1>9, <1>10, SeqMonotonic
  <2> QED
    BY <1>9, <2>1 DEF Last
<1>12. l + 1 = Len(policies)
  BY <1>0 DEF l
<1> QED
  BY <1>0, <1>2, <1>7, <1>8, <1>9, <1>11, <1>12 DEF b

\* The listener does not depend on what the others do.
LEMMA ListenerKept ==
    ASSUME ListenerInv, UNCHANGED <<now, policies, fails, listenerVars>>,
           mPc' = "off" <=> mPc = "off"
    PROVE  ListenerInv'
<1>1. /\ Epochs' = Epochs /\ Listening' = Listening
      /\ \A e : Policy(e)' = Policy(e) /\ StartOf(e)' = StartOf(e)
      /\ UNCHANGED <<lPc, lastEpoch, latestQuery, wake, batch>>
  BY DEF Epochs, Listening, Policy, StartOf, listenerVars
<1>2. \A e, t : Awaited(e, t)' = Awaited(e, t)
  BY <1>1 DEF Awaited
<1> QED
  BY <1>1, <1>2 DEF ListenerInv

\* A new policy is the only one that has not been found yet.
LEMMA ListenerEmits ==
    ASSUME QuietStart, ChainInv, TimesInv, ListenerInv, SigningPolicyInitialized
    PROVE  /\ ListenerInv'
           /\ Listening => lastEpoch + 1 = Len(policies)
<1>1. PICK n \in Nat :
        /\ n = Len(policies)
        /\ Epochs' = Epochs \cup {n} /\ n \notin Epochs /\ n > 0 /\ n - 1 \in Epochs
        /\ \A e \in Epochs : e < n /\ Policy(e)' = Policy(e) /\ StartOf(e)' = StartOf(e)
        /\ RoundStartTS(StartOf(n - 1) + Registration) <= now
        /\ Policy(n)'.ts = now
  BY PolicyEmitted
<1>2. /\ latestQuery < now
      /\ UNCHANGED <<now, fails, lPc, lastEpoch, latestQuery, wake, batch, mPc>>
  BY DEF SigningPolicyInitialized, listenerVars, boundVars
<1>3. now \in Nat /\ T0 <= now /\ fails \in Nat
  BY Constants DEF TimesInv, RoundsInv
<1>4. ASSUME Listening PROVE lastEpoch = n - 1
  <2>1. /\ lastEpoch \in Epochs
        /\ \A e \in Epochs : e > lastEpoch => now < RoundStartTS(StartOf(e))
    BY <1>4 DEF ListenerInv
  <2> SUFFICES ASSUME lastEpoch # n - 1 PROVE FALSE
    OBVIOUS
  <2>2. lastEpoch \in Nat /\ n - 1 > lastEpoch
    BY <1>1, <2>1, PolicyType
  <2>3. now < RoundStartTS(StartOf(n - 1))
    BY <1>1, <2>1, <2>2
  <2>4. /\ StartOf(n - 1) \in Nat /\ Registration \in Nat
        /\ RoundStartTS(StartOf(n - 1)) \in Nat
    BY <1>1, PolicyType, Constants
  <2>5. /\ RoundStartTS(StartOf(n - 1) + Registration) =
               RoundStartTS(StartOf(n - 1)) + Registration * CollectDurationSec
        /\ Registration * CollectDurationSec \in Nat
    BY <2>4, RoundStartPlus
  <2> QED
    BY <1>1, <1>3, <2>3, <2>4, <2>5
<1>5. now < RoundStartTS(StartOf(n)')
  <2>1. ChainInv'
    BY ChainEmits
  <2>2. Policy(n)'.ts < RoundStartTS(StartOf(n)')
    BY <1>1, <2>1 DEF ChainInv
  <2> QED
    BY <1>1, <2>2
<1>6. /\ lPc' \in {"off", "start", "sendInitial", "wait", "poll", "send"}
      /\ lPc' = "off" <=> mPc' = "off"
      /\ Listening' = Listening
  BY <1>2 DEF ListenerInv, Listening
<1>7. ASSUME Listening
      PROVE  /\ lastEpoch \in Epochs' /\ latestQuery \in Nat /\ latestQuery <= now
             /\ Policy(lastEpoch)'.ts <= latestQuery
             /\ \A e \in Epochs' : e > lastEpoch =>
                   /\ e = lastEpoch + 1
                   /\ latestQuery < Policy(e)'.ts
                   /\ now < RoundStartTS(StartOf(e)')
  <2>1. /\ lastEpoch \in Epochs /\ latestQuery \in Nat /\ latestQuery <= now
        /\ Policy(lastEpoch).ts <= latestQuery
    BY <1>7 DEF ListenerInv
  <2>2. Policy(lastEpoch)' = Policy(lastEpoch)
    BY <1>1, <1>2, <2>1 DEF Policy
  <2>3. \A e \in Epochs' : e > lastEpoch => e = n
    BY <1>1, <1>4, <1>7, PolicyType
  <2>4. n = lastEpoch + 1
    BY <1>1, <1>4, <1>7
  <2> QED
    BY <1>1, <1>2, <1>5, <2>1, <2>2, <2>3, <2>4
<1>8. ASSUME lPc \in {"wait", "poll"}
      PROVE  /\ wake \in Nat /\ wake + 1 <= now + CollectDurationSec
             /\ Awaited(n, now)' /\ Awaited(n, wake)' /\ lastEpoch + 1 = n
  <2>1. wake \in Nat /\ wake + 1 <= now + CollectDurationSec
    BY <1>8 DEF ListenerInv
  <2>2. lastEpoch = n - 1
    BY <1>4, <1>8 DEF Listening
  <2>3. /\ now + 2 <= now + MaxLag + CollectDurationSec + fails
        /\ wake + 2 <= now + MaxLag + CollectDurationSec + fails
    BY <1>3, <2>1, HeadStart, Constants
  <2>4. \A t : t + 2 <= now + MaxLag + CollectDurationSec + fails => Awaited(n, t)'
    BY <1>1, <1>2 DEF Awaited
  <2> QED
    BY <1>1, <1>2, <2>1, <2>2, <2>3, <2>4
<1>9. lPc # "send"
  <2> SUFFICES ASSUME lPc = "send" PROVE FALSE
    OBVIOUS
  <2>1. lastEpoch + 1 \in Epochs /\ lastEpoch = n - 1
    BY <1>4 DEF ListenerInv, Listening
  <2> QED
    BY <1>1, <2>1
<1>10. Listening => lastEpoch + 1 = Len(policies)
  BY <1>1, <1>4
<1> QED
  BY <1>2, <1>6, <1>7, <1>8, <1>9, <1>10 DEF ListenerInv

\* Time passes, and the next query is still due in time.
LEMMA ListenerWaits ==
    ASSUME ChainInv, TimesInv, ListenerInv, TimePasses
    PROVE  /\ ListenerInv'
           /\ lPc \in {"off", "wait", "poll"}
<1> DEFINE k == lastEpoch + 1
<1>1. /\ lPc # "start" /\ ~QueryDue /\ ~SendDue /\ voters = <<>>
      /\ now' = now + 1
      /\ UNCHANGED <<policies, fails, lPc, lastEpoch, latestQuery, wake, batch, mPc>>
  BY DEF TimePasses, boundVars, listenerVars
<1>2. Len(voters) < VotersCap
  BY <1>1, Constants
<1>3. lPc \in {"off", "wait", "poll"}
  BY <1>1, <1>2 DEF SendDue, ListenerInv
<1>4. now \in Nat /\ fails \in Nat
  BY Constants DEF TimesInv, RoundsInv
<1>5. /\ Epochs' = Epochs /\ Listening' = Listening
      /\ \A e : Policy(e)' = Policy(e) /\ StartOf(e)' = StartOf(e)
      /\ \A e, t : t' = t => Awaited(e, t)' = Awaited(e, t)
  BY <1>1 DEF Epochs, Listening, Policy, StartOf, Awaited
<1>6. ASSUME lPc \in {"wait", "poll"}
      PROVE  /\ lastEpoch \in Epochs /\ latestQuery \in Nat /\ latestQuery <= now
             /\ Policy(lastEpoch).ts <= latestQuery
             /\ \A e \in Epochs : e > lastEpoch =>
                   e = lastEpoch + 1 /\ latestQuery < Policy(e).ts
             /\ wake \in Nat /\ wake + 1 <= now + CollectDurationSec
             /\ lastEpoch + 1 \in Epochs =>
                   /\ Awaited(lastEpoch + 1, now) /\ Awaited(lastEpoch + 1, wake)
  BY <1>6 DEF ListenerInv, Listening
<1>7. ASSUME lPc \in {"wait", "poll"}, k \in Epochs
      PROVE  Awaited(k, now + 1) /\ now + 1 < RoundStartTS(StartOf(k))
  <2>1. k \in Nat /\ k > 0
    BY <1>6, <1>7, PolicyType
  <2>2. Awaited(k, wake) /\ wake \in Nat
    BY <1>6, <1>7
  <2> HIDE DEF k
  <2>3. Awaited(k, now + 1)
    <3>1. CASE now < wake
      BY <1>4, <1>7, <2>2, <3>1, AwaitedEarlier
    <3>2. CASE ~(now < wake)
      <4>1. ~(ExpectedStartTS(k) <= now + CollectDurationSec * startOffset)
        BY <1>1, <1>4, <1>7, <2>2, <3>2 DEF QueryDue, k
      <4>2. ExpectedStartTS(k) \in Nat
        BY <2>1, ExpectedRound
      <4>3. (now + 1) + CollectDurationSec * startOffset <= ExpectedStartTS(k) + fails
        BY <1>4, <4>1, <4>2, HeadStart
      <4> QED
        BY <4>3 DEF Awaited
    <3> QED
      BY <3>1, <3>2
  <2> QED
    BY <1>4, <1>7, <2>1, <2>3, AwaitedInTime
<1>8. CASE lPc = "off"
  BY <1>1, <1>5, <1>8 DEF ListenerInv, Listening
<1>9. CASE lPc \in {"wait", "poll"}
  <2>1. /\ lPc' \in {"wait", "poll"} /\ mPc' # "off"
        /\ lastEpoch' \in Epochs' /\ latestQuery' \in Nat /\ latestQuery' <= now'
        /\ wake' \in Nat /\ wake' + 1 <= now' + CollectDurationSec
    BY <1>1, <1>4, <1>5, <1>6, <1>9, Constants DEF ListenerInv
  <2>4. Policy(lastEpoch)'.ts <= latestQuery'
    BY <1>1, <1>6, <1>9 DEF Policy
  <2>2. \A e \in Epochs' : e > lastEpoch' =>
            /\ e = lastEpoch' + 1 /\ latestQuery' < Policy(e)'.ts
            /\ now' < RoundStartTS(StartOf(e)')
    BY <1>1, <1>5, <1>6, <1>7, <1>9
  <2>3. k \in Epochs => Awaited(k, now)' /\ Awaited(k, wake)'
    BY <1>1, <1>5, <1>6, <1>7, <1>9 DEF Awaited
  <2> QED
    BY <1>1, <1>5, <1>9, <2>1, <2>2, <2>3, <2>4 DEF ListenerInv, Listening
<1> QED
  BY <1>3, <1>8, <1>9

\* The initial query finds every policy.
LEMMA ListenerStarts ==
    ASSUME QuietStart, ChainInv, TimesInv, ListenerInv, SigningPolicyInitializedListener
    PROVE  ListenerInv'
<1>1. /\ Last(policies).ts <= indexed /\ lPc = "start" /\ lPc' = "sendInitial"
      /\ lastEpoch' = Last(InOrder(initialLogs)) /\ latestQuery' = now
      /\ UNCHANGED <<now, policies, mPc>>
  BY DEF SigningPolicyInitializedListener, chainVars
<1>2. PICK l \in Epochs : l + 1 = Len(policies) /\ Last(InOrder(initialLogs)) = l
  BY <1>1, InitialQuery
<1>3. /\ Epochs' = Epochs
      /\ \A e : Policy(e)' = Policy(e) /\ StartOf(e)' = StartOf(e)
  BY <1>1 DEF Epochs, Policy, StartOf
<1>4. now \in Nat /\ Policy(l).ts <= now /\ \A e \in Epochs : ~(e > l)
  BY <1>2, PolicyType DEF TimesInv, RoundsInv
<1>5. Policy(lastEpoch)' = Policy(l)
  BY <1>1, <1>2 DEF Policy
<1> QED
  BY <1>1, <1>2, <1>3, <1>4, <1>5 DEF ListenerInv, Listening

\* A query finds the next policy, or it was not in the database yet.
LEMMA ListenerQueries ==
    ASSUME ChainInv, TimesInv, ListenerInv, queryNextSPI
    PROVE  ListenerInv'
<1>1. /\ lPc \in {"wait", "poll"}
      /\ \/ newLogs = {} /\ lPc' = "poll" /\ wake' = now + CollectDurationSec - 1
         \/ newLogs # {} /\ lPc' = "send" /\ batch' = InOrder(newLogs)
      /\ fails' = 0
      /\ UNCHANGED <<now, policies, lastEpoch, latestQuery, mPc>>
  BY DEF queryNextSPI, QueryDue, chainVars
<1>2. /\ Epochs' = Epochs /\ Listening' /\ Listening
      /\ \A e : Policy(e)' = Policy(e) /\ StartOf(e)' = StartOf(e)
      /\ Policy(lastEpoch)' = Policy(lastEpoch)
  BY <1>1 DEF Epochs, Listening, Policy, StartOf
<1>3. /\ mPc' # "off"
      /\ lastEpoch \in Epochs' /\ latestQuery \in Nat /\ latestQuery <= now'
      /\ Policy(lastEpoch)'.ts <= latestQuery
      /\ \A e \in Epochs' : e > lastEpoch =>
            /\ e = lastEpoch + 1
            /\ latestQuery < Policy(e)'.ts
            /\ now' < RoundStartTS(StartOf(e)')
  BY <1>1, <1>2 DEF ListenerInv, Listening
<1>4. CASE newLogs = {}
  <2>1. lPc' = "poll" /\ wake' = now + CollectDurationSec - 1
    BY <1>1, <1>4
  <2>2. /\ now \in Nat /\ indexed \in Nat /\ now <= indexed + MaxLag
        /\ \A e \in Epochs : Policy(e).ts \in Nat
    BY PolicyType DEF TimesInv, RoundsInv
  <2>3. wake' \in Nat /\ wake' + 1 <= now' + CollectDurationSec
    BY <1>1, <2>1, <2>2, Constants
  <2>4. ASSUME lastEpoch + 1 \in Epochs
        PROVE  Awaited(lastEpoch + 1, now)' /\ Awaited(lastEpoch + 1, wake)'
    <3> DEFINE k == lastEpoch + 1
               a == Policy(k).ts
    <3>1. a \in Nat /\ indexed < a
      BY <1>1, <1>4, <2>2, <2>4, NewLogsOne
    <3>2. Policy(k)' = Policy(k)
      BY <1>1 DEF Policy
    <3> HIDE DEF k, a
    <3>3. /\ now + 2 <= a + MaxLag + CollectDurationSec + 0
          /\ wake' + 2 <= a + MaxLag + CollectDurationSec + 0
      BY <2>1, <2>2, <3>1, Constants
    <3> QED
      BY <1>1, <3>2, <3>3 DEF Awaited, a, k
  <2> QED
    BY <1>1, <1>2, <1>3, <2>1, <2>3, <2>4 DEF ListenerInv
<1>5. CASE newLogs # {}
  <2>1. lPc' = "send" /\ batch' = InOrder(newLogs)
    BY <1>1, <1>5
  <2>2. lastEpoch + 1 \in Epochs /\ batch' = <<lastEpoch + 1>>
    BY <1>1, <1>5, <2>1, NewLogsOne
  <2> QED
    BY <1>1, <1>2, <1>3, <2>1, <2>2 DEF ListenerInv
<1> QED
  BY <1>4, <1>5

\* A query that fails is made again one unit later.
LEMMA ListenerFails ==
    ASSUME ChainInv, TimesInv, ListenerInv, queryNextSPIFails
    PROVE  ListenerInv'
<1>1. /\ lPc \in {"wait", "poll"} /\ lPc' = "wait" /\ wake' = now + 1
      /\ fails' = fails + 1
      /\ UNCHANGED <<now, policies, lastEpoch, latestQuery, mPc>>
  BY DEF queryNextSPIFails, QueryDue, chainVars
<1>2. /\ Epochs' = Epochs /\ Listening' /\ Listening
      /\ \A e : Policy(e)' = Policy(e) /\ StartOf(e)' = StartOf(e)
      /\ Policy(lastEpoch)' = Policy(lastEpoch)
  BY <1>1 DEF Epochs, Listening, Policy, StartOf
<1>3. /\ mPc' # "off"
      /\ lastEpoch \in Epochs' /\ latestQuery \in Nat /\ latestQuery <= now'
      /\ Policy(lastEpoch)'.ts <= latestQuery
      /\ \A e \in Epochs' : e > lastEpoch =>
            /\ e = lastEpoch + 1
            /\ latestQuery < Policy(e)'.ts
            /\ now' < RoundStartTS(StartOf(e)')
  BY <1>1, <1>2 DEF ListenerInv, Listening
<1>4. now \in Nat /\ fails \in Nat /\ \A e \in Epochs : e \in Nat /\ Policy(e).ts \in Nat
  BY PolicyType, Constants DEF TimesInv, RoundsInv
<1>5. wake' \in Nat /\ wake' + 1 <= now' + CollectDurationSec
  BY <1>1, <1>4, Constants
<1>6. ASSUME lastEpoch + 1 \in Epochs
      PROVE  Awaited(lastEpoch + 1, now)' /\ Awaited(lastEpoch + 1, wake)'
  <2> DEFINE k == lastEpoch + 1
             a == Policy(k).ts
             x == ExpectedStartTS(k)
             h == CollectDurationSec * startOffset
  <2>1. Awaited(k, now)
    BY <1>1, <1>6 DEF ListenerInv
  <2>2. a \in Nat /\ x \in Nat /\ h \in Nat
    BY <1>4, <1>6, ExpectedRound, HeadStart
  <2>3. Policy(k)' = Policy(k) /\ ExpectedStartTS(k)' = x
    BY <1>1 DEF Policy, ExpectedStartTS
  <2>4. \/ now + 2 <= a + MaxLag + CollectDurationSec + fails
        \/ now + h <= x + fails
    BY <2>1 DEF Awaited
  <2> HIDE DEF k, a, x, h
  <2>5. \/ /\ now + 2 <= a + MaxLag + CollectDurationSec + fails'
           /\ wake' + 2 <= a + MaxLag + CollectDurationSec + fails'
        \/ now + h <= x + fails' /\ wake' + h <= x + fails'
    BY <1>1, <1>4, <2>2, <2>4, Constants
  <2> QED
    BY <1>1, <2>3, <2>5 DEF Awaited, a, k, x, h
<1> QED
  BY <1>1, <1>2, <1>3, <1>5, <1>6 DEF ListenerInv

\* After a send no policy is left that has not been found.
LEMMA ListenerSends ==
    ASSUME ChainInv, TimesInv, ListenerInv, ChannelInv, spiTargetedListenerSends
    PROVE  ListenerInv'
<1>1. /\ lPc \in {"sendInitial", "send"} /\ lPc' = "wait" /\ wake' = 0
      /\ IF lPc = "send" THEN latestQuery' = now /\ lastEpoch' = lastEpoch + 1
                         ELSE latestQuery' = latestQuery /\ lastEpoch' = lastEpoch
      /\ UNCHANGED <<now, policies, mPc>>
  BY DEF spiTargetedListenerSends, SendDue, chainVars
<1>2. now \in Nat
  BY DEF TimesInv, RoundsInv
<1>3. /\ mPc # "off" /\ lastEpoch \in Epochs
      /\ \A e \in Epochs : e > lastEpoch => e = lastEpoch + 1 /\ latestQuery < Policy(e).ts
      /\ lPc = "send" => lastEpoch + 1 \in Epochs
      /\ lPc = "sendInitial" => latestQuery = now
  BY <1>1 DEF ListenerInv, ChannelInv, Listening
<1>4. \A e \in Epochs : e \in Nat /\ Policy(e).ts \in Nat /\ Policy(e).ts <= now
  BY PolicyType
<1>5. latestQuery' = now /\ lastEpoch' \in Epochs
  BY <1>1, <1>3
<1>6. \A e \in Epochs : ~(e > lastEpoch')
  BY <1>1, <1>2, <1>3, <1>4
<1>7. Epochs' = Epochs /\ Policy(lastEpoch)'.ts <= now
  BY <1>1, <1>4, <1>5 DEF Epochs, Policy
<1>8. lastEpoch' + 1 \notin Epochs
  BY <1>4, <1>5, <1>6
<1> QED
  BY <1>1, <1>2, <1>3, <1>5, <1>6, <1>7, <1>8, Constants DEF ListenerInv, Listening

\* One step.
LEMMA ListenerStep ==
    QuietStart /\ ChainInv /\ TimesInv /\ ListenerInv /\ ChannelInv /\ [Next]_vars
        => ListenerInv'
<1> SUFFICES ASSUME QuietStart, ChainInv, TimesInv, ListenerInv, ChannelInv, [Next]_vars
             PROVE  ListenerInv'
  OBVIOUS
<1>1. CASE Start
  BY <1>1 DEF Start, ListenerInv, Listening
<1>2. CASE Ends
  BY <1>2 DEF Ends, ListenerInv, Listening
<1>3. CASE UNCHANGED <<now, policies, fails, listenerVars>> /\ (mPc' = "off" <=> mPc = "off")
  BY <1>3, ListenerKept
<1>4. CASE RunInitial
  <2>1. \/ Ends
        \/ /\ mPc = "init" /\ mPc' = "run"
           /\ UNCHANGED <<now, policies, fails, listenerVars>>
    BY <1>4 DEF RunInitial, chainVars, boundVars
  <2> QED
    BY <1>2, <1>3, <2>1
<1> QED
  BY <1>1, <1>2, <1>3, <1>4, ListenerEmits, ListenerWaits, ListenerStarts,
     ListenerQueries, ListenerFails, ListenerSends
  DEF Next, vars, chainVars, boundVars, Crash, scheduledShutdown, IndexerCatchesUp,
      OnSigningPolicies, OnRequest, OnBitVotes

-----------------------------------------------------------------------------
(* The channel from the listener to the manager.                           *)

\* The lag of the database is less than the time from the emission of a policy
\* to its start, and a registration takes longer than a late message.
LEMMA Margins ==
    /\ Registration * CollectDurationSec \in Nat
    /\ ChooseDurationSec + Late < Registration * CollectDurationSec
    /\ MaxLag <= MinDelay * CollectDurationSec
<1>1. Registration * CollectDurationSec \in Nat
  BY Constants
<1>2. ChooseDurationSec + Late < Registration * CollectDurationSec
  BY HistoryAssumption
<1> QED
  BY <1>1, <1>2, HeadStart, Constants

\* The initial query goes back far enough: when a client starts, the first of
\* its policies began before every round it will hear of.
LEMMA InitialCovers ==
    ASSUME ChainInv, TimesInv, NEW h \in Epochs,
           h = 0 \/ h + InitialPolicies = Len(policies), mPc # "off",
           NEW t \in T0..now, now <= t + MaxLag,
           from = LastCollectPhaseStart(t), firstVotes = NextChooseEnd(t)
    PROVE  StartOf(h) <= firstVotes /\ StartOf(h) <= RoundIDForTS(from)
<1>1. /\ from \in Nat /\ T0 <= from /\ firstVotes \in Nat /\ now \in Nat /\ T0 \in Nat
  BY Constants DEF TimesInv, RoundsInv
<1>2. RoundIDForTS(from) \in Nat
  BY <1>1, RoundOfTimestamp
<1>3. CASE h = 0
  BY <1>1, <1>2, <1>3, PolicyType
<1>4. CASE h + InitialPolicies = Len(policies)
  <2> DEFINE f == h + 1
             g == h + 2
             s == StartOf(h)
             d == Registration * CollectDurationSec
             m == MinDelay * CollectDurationSec
  <2>1. h \in Nat /\ f \in Epochs /\ g \in Epochs /\ h < f /\ f < g /\ f > 0
    <3>1. h \in Nat /\ h + 3 <= Len(policies)
      BY <1>4, PolicyType, HistoryAssumption, Constants
    <3>2. f \in Nat /\ f < Len(policies) /\ g \in Nat /\ g < Len(policies)
      BY <3>1, PolicyType
    <3>3. f \in Epochs /\ g \in Epochs
      BY <3>2, PolicyType
    <3> QED
      BY <3>1, <3>3
  <2>2. /\ s \in Nat /\ StartOf(f) \in Nat /\ Policy(f).ts \in Nat /\ Policy(g).ts \in Nat
        /\ RoundStartTS(s) \in Nat /\ RoundStartTS(StartOf(f)) \in Nat
        /\ Policy(g).ts <= now
    BY <2>1, PolicyType
  <2>3. /\ RoundStartTS(s + Registration) <= Policy(f).ts
        /\ RoundStartTS(StartOf(f) + Registration) <= Policy(g).ts
        /\ Policy(f).ts + m < RoundStartTS(StartOf(f))
    BY <2>1 DEF ChainInv
  <2> HIDE DEF f, g, s
  <2>4. /\ RoundStartTS(s + Registration) = RoundStartTS(s) + d
        /\ RoundStartTS(StartOf(f) + Registration) = RoundStartTS(StartOf(f)) + d
    BY <2>2, Constants, RoundStartPlus
  <2>5. d \in Nat /\ m \in Nat /\ ChooseDurationSec + Late < d /\ MaxLag <= m
    BY Margins, HeadStart
  <2> HIDE DEF d, m
  <2>6. RoundStartTS(s) + ChooseDurationSec < t
    <3>1. t \in Nat
      BY <1>1
    <3>2. RoundStartTS(s) + d + m < RoundStartTS(StartOf(f))
      BY <2>2, <2>3, <2>4, <2>5
    <3>3. RoundStartTS(StartOf(f)) + d <= now
      <4> DEFINE x == RoundStartTS(StartOf(f))
                 y == Policy(g).ts
      <4>1. x \in Nat /\ y \in Nat /\ x + d <= y /\ y <= now
        BY <2>2, <2>3, <2>4
      <4> HIDE DEF x, y
      <4> QED
        BY <1>1, <2>5, <4>1 DEF x
    <3>4. RoundStartTS(s) + d + m + d < now
      BY <1>1, <2>2, <2>5, <3>2, <3>3
    <3>5. RoundStartTS(s) + ChooseDurationSec + MaxLag < now
      <4> DEFINE x == RoundStartTS(s)
      <4>1. x \in Nat /\ x + d + m + d < now
        BY <2>2, <3>4
      <4> HIDE DEF x
      <4>2. ChooseDurationSec <= d /\ MaxLag <= m /\ now \in Nat
        BY <1>1, <2>5, Constants
      <4> QED
        BY <2>5, <4>1, <4>2, Constants DEF x
    <3> QED
      BY <1>1, <2>2, <3>1, <3>5, Constants
  <2>7. s <= firstVotes
    <3> SUFFICES ASSUME firstVotes + 1 <= s PROVE FALSE
      BY <1>1, <2>2
    <3>1. t <= ChooseEndTS(firstVotes)
      BY <1>1, NextChooseEndIsNext
    <3>2. RoundStartTS(firstVotes + 1) <= RoundStartTS(s)
      BY <1>1, <2>2, RoundStartOrder
    <3>3. RoundStartTS(firstVotes + 1) \in Nat
      BY <1>1, RoundStartType
    <3>4. ChooseEndTS(firstVotes) = RoundStartTS(firstVotes + 1) + ChooseDurationSec
      BY DEF ChooseEndTS, ChooseStartTS
    <3> DEFINE x == RoundStartTS(s)
               y == RoundStartTS(firstVotes + 1)
    <3>5. /\ x \in Nat /\ y \in Nat /\ y <= x /\ t \in Nat
          /\ x + ChooseDurationSec < t /\ t <= y + ChooseDurationSec
      BY <1>1, <2>2, <2>6, <3>1, <3>2, <3>3, <3>4
    <3> HIDE DEF x, y
    <3> QED
      BY <3>5, Constants
  <2>8. s <= RoundIDForTS(from)
    <3> DEFINE r == RoundIDForTS(t)
    <3>1. r \in Nat /\ RoundStartTS(r) <= t /\ t < RoundStartTS(r + 1) /\ t \in Nat
      BY <1>1, RoundOfTime
    <3>2. from = RoundStartTS(r)
      BY DEF LastCollectPhaseStart
    <3> HIDE DEF r
    <3>3. RoundStartTS(r) \in Nat /\ RoundStartTS(r + 1) \in Nat
      BY <3>1, RoundStartType
    <3>4. RoundIDForTS(from) = r
      <4>1. from < RoundStartTS(r + 1)
        BY <3>1, <3>2, <3>3
      <4>2. RoundStartTS(r) <= from
        BY <3>2, <3>3
      <4> QED
        BY <1>1, <3>1, <4>1, <4>2, RoundOfTimestamp
    <3> SUFFICES ASSUME r + 1 <= s PROVE FALSE
      BY <2>2, <3>1, <3>4
    <3>5. RoundStartTS(r + 1) <= RoundStartTS(s)
      BY <2>2, <3>1, RoundStartOrder
    <3> QED
      BY <2>2, <2>6, <3>1, <3>3, <3>5, Constants
  <2> QED
    BY <2>7, <2>8 DEF s
<1> QED
  BY <1>3, <1>4

\* The channel does not depend on what the others do.
LEMMA ChannelKept ==
    ASSUME ChannelInv,
           UNCHANGED <<now, policies, lPc, lastEpoch, latestQuery, batch, voters, mPc,
                       from, firstVotes>>
    PROVE  ChannelInv'
BY DEF ChannelInv, InitialBatch, Covers, Epochs, StartOf, Policy

\* The first policies go to the channel, and then one at a time.
LEMMA ChannelSends ==
    ASSUME ChainInv, TimesInv, ListenerInv, ChannelInv, spiTargetedListenerSends
    PROVE  ChannelInv'
<1>1. /\ lPc \in {"sendInitial", "send"} /\ lPc' = "wait"
      /\ voters' = Append(voters, batch)
      /\ IF lPc = "send" THEN latestQuery' = now /\ lastEpoch' = lastEpoch + 1
                         ELSE latestQuery' = latestQuery /\ lastEpoch' = lastEpoch
      /\ UNCHANGED <<now, policies, mPc, from, firstVotes>>
  BY DEF spiTargetedListenerSends, SendDue, chainVars, inputVars
<1>2. voters = <<>>
  BY <1>1 DEF ChannelInv
<1>3. voters' = <<batch>>
  BY <1>1, <1>2
<1>4. CASE lPc = "sendInitial"
  <2>1. mPc = "init" /\ latestQuery = now /\ InitialBatch(batch)
    BY <1>4 DEF ChannelInv
  <2>2. \A b : InitialBatch(b)' = InitialBatch(b)
    BY <1>1, <1>4 DEF InitialBatch, Covers, Epochs, StartOf, Policy
  <2>3. Epochs' = Epochs /\ batch \in Seq(Epochs)
    BY <1>1, <2>1 DEF Epochs, InitialBatch
  <2>4. \E b \in Seq(Epochs') : voters' = <<b>> /\ InitialBatch(b)'
    BY <1>3, <2>1, <2>2, <2>3
  <2> QED
    BY <1>1, <1>4, <2>1, <2>4 DEF ChannelInv
<1>5. CASE lPc = "send"
  <2>1. mPc = "run" /\ batch = <<lastEpoch + 1>> /\ lastEpoch + 1 \in Epochs
        /\ lastEpoch \in Epochs
        /\ \A e \in Epochs : e > lastEpoch => now < RoundStartTS(StartOf(e))
    BY <1>5 DEF ChannelInv, ListenerInv, Listening
  <2>2. lastEpoch \in Nat /\ lastEpoch + 1 > lastEpoch
    BY <2>1, PolicyType
  <2>3. now < RoundStartTS(StartOf(lastEpoch + 1))
    BY <2>1, <2>2
  <2>4. /\ voters' = <<<<lastEpoch'>>>> /\ lastEpoch' > 0
        /\ now' < RoundStartTS(StartOf(lastEpoch)')
    BY <1>1, <1>3, <1>5, <2>1, <2>2, <2>3 DEF StartOf, Policy
  <2> QED
    BY <1>1, <1>5, <2>1, <2>4 DEF ChannelInv
<1> QED
  BY <1>1, <1>4, <1>5

\* The initial policies are ready to be sent.
LEMMA ChannelStarts ==
    ASSUME QuietStart, ChainInv, TimesInv, ChannelInv, SigningPolicyInitializedListener
    PROVE  ChannelInv'
<1>1. /\ Last(policies).ts <= indexed /\ lPc = "start" /\ lPc' = "sendInitial"
      /\ batch' = InOrder(initialLogs) /\ lastEpoch' = Last(batch') /\ latestQuery' = now
      /\ UNCHANGED <<now, policies, mPc, voters, from, firstVotes>>
  BY DEF SigningPolicyInitializedListener, chainVars, inputVars
<1>2. /\ voters = <<>> /\ mPc = "init"
      /\ \E t \in T0..now : /\ now <= t + MaxLag
                            /\ from = LastCollectPhaseStart(t)
                            /\ firstVotes = NextChooseEnd(t)
  BY <1>1 DEF ChannelInv
<1>3. PICK h \in Epochs, l \in Epochs :
        /\ h = 0 \/ h + InitialPolicies = Len(policies)
        /\ batch' \in Seq(Epochs) /\ batch' # <<>> /\ batch'[1] = h
        /\ batch'[Len(batch')] = l /\ Last(batch') = l
  BY <1>1, InitialQuery
<1>4. StartOf(h) <= firstVotes /\ StartOf(h) <= RoundIDForTS(from)
  BY <1>2, <1>3, InitialCovers
<1>5. Covers(batch[1])'
  BY <1>1, <1>3, <1>4 DEF Covers, StartOf, Policy
<1>6. Epochs' = Epochs
  BY <1>1 DEF Epochs
<1>7. InitialBatch(batch)'
  BY <1>1, <1>3, <1>5, <1>6 DEF InitialBatch
<1> QED
  BY <1>1, <1>2, <1>7 DEF ChannelInv

\* Queries send nothing while something is under way.
LEMMA ChannelQueries ==
    ASSUME ChainInv, TimesInv, ListenerInv, ChannelInv, queryNextSPI \/ queryNextSPIFails
    PROVE  ChannelInv'
<1>1. /\ lPc \in {"wait", "poll"}
      /\ \/ lPc' \in {"wait", "poll"}
         \/ newLogs # {} /\ lPc' = "send"
      /\ UNCHANGED <<now, policies, lastEpoch, latestQuery, mPc, voters, from, firstVotes>>
  BY DEF queryNextSPI, queryNextSPIFails, QueryDue, chainVars, inputVars
<1>2. \A b : InitialBatch(b)' = InitialBatch(b)
  BY <1>1 DEF InitialBatch, Covers, Epochs, StartOf, Policy
<1>3. Epochs' = Epochs /\ StartOf(lastEpoch)' = StartOf(lastEpoch)
  BY <1>1 DEF Epochs, StartOf, Policy
<1>4. CASE lPc' \in {"wait", "poll"}
  BY <1>1, <1>2, <1>3, <1>4 DEF ChannelInv
<1>5. CASE newLogs # {} /\ lPc' = "send"
  <2>1. PICK e \in Epochs : latestQuery < Policy(e).ts /\ Policy(e).ts <= now
    BY <1>5 DEF newLogs
  <2>2. Policy(e).ts \in Nat /\ now \in Nat /\ latestQuery \in Nat
    BY <1>1, PolicyType DEF ListenerInv, Listening, TimesInv, RoundsInv
  <2>3. voters = <<>>
    BY <2>1, <2>2 DEF ChannelInv
  <2>4. \A b : voters # <<b>>
    BY <2>3
  <2>5. mPc # "init" /\ mPc # "off"
    BY <1>1, <2>4 DEF ChannelInv, ListenerInv
  <2>6. mPc = "run"
    BY <2>5 DEF TimesInv, RoundsInv
  <2> QED
    BY <1>1, <1>5, <2>3, <2>6 DEF ChannelInv
<1> QED
  BY <1>1, <1>4, <1>5

\* One step.
LEMMA ChannelStep ==
    QuietStart /\ ChainInv /\ TimesInv /\ ListenerInv /\ ChannelInv /\ [Next]_vars
        => ChannelInv'
<1> SUFFICES ASSUME QuietStart, ChainInv, TimesInv, ListenerInv, ChannelInv, [Next]_vars
             PROVE  ChannelInv'
  OBVIOUS
<1>0. /\ now \in Nat /\ indexed \in Nat /\ indexed <= now /\ T0 \in Nat
      /\ now <= indexed + MaxLag
  BY Constants DEF TimesInv, RoundsInv
<1>1. CASE SigningPolicyInitialized
  <2>1. /\ latestQuery < now
        /\ UNCHANGED <<now, lPc, lastEpoch, latestQuery, batch, voters, mPc, from, firstVotes>>
    BY <1>1 DEF SigningPolicyInitialized, listenerVars, inputVars
  <2>2. latestQuery # now
    BY <1>0, <2>1
  <2>3. voters = <<>> /\ lPc # "sendInitial" /\ ~(mPc = "init" /\ lPc \in {"wait", "poll"})
    BY <2>2 DEF ChannelInv
  <2> QED
    BY <2>1, <2>2, <2>3 DEF ChannelInv
<1>2. CASE TimePasses
  <2>1. voters = <<>> /\ lPc \in {"off", "wait", "poll"}
    BY <1>2, ListenerWaits DEF TimePasses
  <2>2. \A b : voters # <<b>>
    BY <2>1
  <2>3. ~(mPc = "init" /\ lPc \in {"wait", "poll"})
    BY <2>2 DEF ChannelInv
  <2>4. UNCHANGED <<lPc, voters, mPc>>
    BY <1>2 DEF TimePasses, listenerVars
  <2> QED
    BY <2>1, <2>3, <2>4 DEF ChannelInv
<1>3. CASE Start
  <2>1. /\ mPc = "off" /\ lPc' = "start" /\ mPc' = "init" /\ T0 <= indexed
        /\ from' = LastCollectPhaseStart(indexed) /\ firstVotes' = NextChooseEnd(indexed)
        /\ UNCHANGED <<now, voters>>
    BY <1>3 DEF Start, chainVars
  <2>2. voters = <<>>
    BY <2>1 DEF ListenerInv, ChannelInv
  <2>3. indexed \in T0..now'
    BY <1>0, <2>1
  <2>4. \E t \in T0..now' : /\ now' <= t + MaxLag
                            /\ from' = LastCollectPhaseStart(t)
                            /\ firstVotes' = NextChooseEnd(t)
    BY <1>0, <2>1, <2>3
  <2> QED
    BY <2>1, <2>2, <2>4 DEF ChannelInv
<1>4. CASE Ends
  BY <1>4 DEF Ends, ChannelInv
<1>5. CASE UNCHANGED <<now, policies, lPc, lastEpoch, latestQuery, batch, voters, mPc,
                       from, firstVotes>>
  BY <1>5, ChannelKept
<1>6. CASE RunInitial
  <2>1. CASE Ends
    BY <1>4, <2>1
  <2>2. CASE ~Ends
    <3>1. /\ mPc = "init" /\ voters # <<>> /\ mPc' = "run" /\ voters' = Tail(voters)
          /\ lPc' = lPc
      BY <1>6, <2>2 DEF RunInitial, listenerVars
    <3>2. lPc \in {"wait", "poll"}
      BY <3>1 DEF ChannelInv, ListenerInv
    <3>3. PICK b : voters = <<b>>
      BY <3>1, <3>2 DEF ChannelInv
    <3>4. voters' = <<>>
      BY <3>1, <3>3
    <3> QED
      BY <3>1, <3>2, <3>4 DEF ChannelInv
  <2> QED
    BY <2>1, <2>2
<1>7. CASE OnSigningPolicies
  <2>1. /\ mPc = "run" /\ voters # <<>> /\ mPc' = "run" /\ voters' = Tail(voters)
        /\ lPc' = lPc
    BY <1>7 DEF OnSigningPolicies, listenerVars
  <2>2. voters = <<<<lastEpoch>>>> /\ lPc \notin {"start", "sendInitial"}
    BY <2>1 DEF ChannelInv
  <2>3. voters' = <<>>
    BY <2>1, <2>2
  <2> QED
    BY <2>1, <2>2, <2>3 DEF ChannelInv
<1> QED
  BY <1>1, <1>2, <1>3, <1>4, <1>5, <1>6, <1>7, ChannelSends, ChannelStarts, ChannelQueries
  DEF Next, vars, chainVars, listenerVars, inputVars, Crash, scheduledShutdown,
      IndexerCatchesUp, OnRequest, OnBitVotes

-----------------------------------------------------------------------------
(* The stored policies.                                                    *)

\* Its length and elements.
LEMMA NoGapSeq ==
    ASSUME NEW s, NoGap(s)
    PROVE  /\ Len(s) \in Nat \ {0} /\ DOMAIN s = 1..Len(s)
           /\ \A i \in 1..Len(s) : s[i] \in Nat /\ s[i] = s[1] + i - 1
           /\ Last(s) = s[Len(s)]
<1>1. s \in Seq(Nat) /\ s # <<>> /\ \A i \in DOMAIN s : s[i] = s[1] + i - 1
  BY DEF NoGap
<1>2. Len(s) \in Nat \ {0} /\ DOMAIN s = 1..Len(s)
  BY <1>1
<1>3. \A i \in 1..Len(s) : s[i] \in Nat
  BY <1>1, ElementOfSeq
<1> QED
  BY <1>1, <1>2, <1>3 DEF Last

\* RemoveBefore leaves an end of the stored policies.  It removes a policy only
\* if the next one began before round r.
LEMMA RemoveBeforeKeeps ==
    ASSUME NEW s, NoGap(s), NEW r
    PROVE  LET t == RemoveBefore(s, r)
           IN  /\ NoGap(t) /\ Last(t) = Last(s)
               /\ \E m \in DOMAIN s : t[1] = s[m] /\ (m > 1 => StartOf(s[m]) < r)
<1> DEFINE n == Len(s)
           kept == {i \in DOMAIN s : i = n \/ ~(StartOf(s[i + 1]) < r)}
           m == CHOOSE x \in kept : \A y \in kept : x <= y
           t == SubSeq(s, m, n)
<1>1. /\ s \in Seq(Nat) /\ n \in Nat \ {0} /\ DOMAIN s = 1..n
      /\ \A i \in 1..n : s[i] = s[1] + i - 1
      /\ \A i \in 1..n : s[i] \in Nat
  BY DEF NoGap
<1> HIDE DEF n
<1>2. n \in kept /\ kept \in SUBSET Nat
  BY <1>1
<1>3. \E x \in kept : \A y \in kept : x <= y
  <2> HIDE DEF kept
  <2> QED
    BY <1>2, LeastNumber
<1>4. m \in kept /\ \A y \in kept : m <= y
  <2> HIDE DEF kept
  <2> QED
    BY <1>3
<1> HIDE DEF m
<1>5. m \in 1..n
  BY <1>1, <1>4
<1>6. m > 1 => StartOf(s[m]) < r
  <2> SUFFICES ASSUME m > 1 PROVE StartOf(s[m]) < r
    OBVIOUS
  <2>1. m - 1 \in DOMAIN s /\ m - 1 # n /\ ~(m <= m - 1) /\ (m - 1) + 1 = m
    BY <1>1, <1>5
  <2>2. m - 1 \notin kept
    <3> HIDE DEF kept
    <3> QED
      BY <1>4, <2>1
  <2>3. StartOf(s[(m - 1) + 1]) < r
    BY <2>1, <2>2
  <2> QED
    BY <2>1, <2>3
<1>7. /\ t \in Seq(Nat) /\ Len(t) = n - m + 1
      /\ \A i \in 1..(n - m + 1) : t[i] = s[m + i - 1]
  BY <1>1, <1>5 DEF n
<1>8. RemoveBefore(s, r) = t
  BY DEF RemoveBefore, Min, n, m
<1> HIDE DEF t, kept
<1>9. /\ t # <<>> /\ DOMAIN t = 1..(n - m + 1) /\ t[1] = s[m]
      /\ t[n - m + 1] = s[n]
  <2>1. n - m + 1 \in Nat \ {0} /\ m + 1 - 1 = m /\ m + (n - m + 1) - 1 = n
    BY <1>1, <1>5
  <2>2. DOMAIN t = 1..(n - m + 1) /\ t # <<>>
    BY <1>7, <2>1
  <2>3. 1 \in 1..(n - m + 1) /\ n - m + 1 \in 1..(n - m + 1)
    BY <2>1
  <2>4. t[1] = s[m + 1 - 1] /\ t[n - m + 1] = s[m + (n - m + 1) - 1]
    BY <1>7, <2>3
  <2> QED
    BY <2>1, <2>2, <2>4
<1>10. \A i \in DOMAIN t : t[i] = t[1] + i - 1
  <2> SUFFICES ASSUME NEW i \in 1..(n - m + 1) PROVE t[i] = t[1] + i - 1
    BY <1>9
  <2>1. m + i - 1 \in 1..n
    BY <1>1, <1>5
  <2>2. t[i] = s[m + i - 1] /\ s[m + i - 1] = s[1] + (m + i - 1) - 1 /\ s[m] = s[1] + m - 1
    BY <1>1, <1>5, <1>7, <2>1
  <2>3. s[1] \in Nat
    BY <1>1
  <2> QED
    <3>1. t[i] = s[1] + (m + i - 1) - 1 /\ t[1] = s[1] + m - 1
      BY <1>9, <2>2
    <3>2. m \in Nat /\ i \in Nat
      BY <1>1, <1>5
    <3> QED
      BY <2>3, <3>1, <3>2
<1>11. Last(t) = Last(s)
  BY <1>1, <1>7, <1>9 DEF Last, n
<1> QED
  BY <1>1, <1>5, <1>6, <1>7, <1>8, <1>9, <1>10, <1>11 DEF NoGap

\* The policies of a running manager.
LEMMA Running ==
    ASSUME ChainInv, TimesInv, ListenerInv, ChannelInv, StoreInv, mPc = "run"
    PROVE  /\ Listening /\ lastEpoch \in Epochs /\ Given \in Epochs
           /\ NoGap(store) /\ Last(store) \in Epochs /\ Last(store) = store[Len(store)]
           /\ Last(store) <= Given /\ Given <= lastEpoch
           /\ \A i \in DOMAIN store : store[i] \in Epochs /\ store[i] <= Last(store)
           /\ 1 \in DOMAIN store /\ Len(store) \in DOMAIN store
<1>1. Listening
  BY DEF ListenerInv, ChannelInv, Listening
<1>2. lastEpoch \in Epochs /\ lastEpoch \in Nat
  BY <1>1, PolicyType DEF ListenerInv
<1>3. voters # <<>> => lastEpoch > 0
  BY DEF ChannelInv
<1>4. Given \in Nat /\ Given <= lastEpoch
  BY <1>2, <1>3 DEF Given
<1>5. \A e : e \in Epochs <=> e \in Nat /\ e < Len(policies)
  BY PolicyType
<1>6. Given \in Epochs
  BY <1>2, <1>4, <1>5, PolicyType
<1>7. NoGap(store) /\ Last(store) <= Given
  BY DEF StoreInv, NoGap
<1> DEFINE n == Len(store)
<1>8. /\ n \in Nat \ {0} /\ DOMAIN store = 1..n /\ Last(store) = store[n]
      /\ \A i \in 1..n : store[i] \in Nat /\ store[i] = store[1] + i - 1
  BY <1>7, NoGapSeq
<1> HIDE DEF n
<1>9. \A i \in 1..n : store[i] <= store[n]
  BY <1>8
<1>10. \A i \in 1..n : store[i] \in Epochs
  BY <1>4, <1>5, <1>6, <1>7, <1>8, <1>9, PolicyType
<1> QED
  BY <1>1, <1>2, <1>4, <1>6, <1>7, <1>8, <1>9, <1>10 DEF n

\* When the policy of epoch k is out, nobody hears of rounds before epoch e, which
\* is before k.
LEMMA CoversBefore ==
    ASSUME ChainInv, TimesInv, NEW e \in Epochs, NEW k \in Epochs, e < k
    PROVE  Covers(e)
<1>1. /\ StartOf(e) \in Nat /\ RoundStartTS(StartOf(e)) \in Nat /\ Policy(k).ts \in Nat
      /\ Policy(k).ts <= now /\ now \in Nat
  BY PolicyType DEF TimesInv, RoundsInv
<1>2. RoundStartTS(StartOf(e) + Registration) <= Policy(k).ts
  BY DEF ChainInv
<1>3. RoundStartTS(StartOf(e) + Registration) =
          RoundStartTS(StartOf(e)) + Registration * CollectDurationSec
  BY <1>1, Constants, RoundStartPlus
<1>4. RoundStartTS(StartOf(e)) + ChooseDurationSec + Late < now
  BY <1>1, <1>2, <1>3, Margins, Constants
<1> QED
  BY <1>4 DEF Covers

\* The initial policies are stored as they came.
LEMMA StoreInitial ==
    ASSUME ChainInv, TimesInv, ListenerInv, ChannelInv, StoreInv, RunInitial
    PROVE  StoreInv' \/ Ends
<1> SUFFICES ASSUME ~Ends PROVE StoreInv'
  OBVIOUS
<1>1. /\ mPc = "init" /\ voters # <<>> /\ AddAll(Head(voters)).shutdowns = {}
      /\ store' = AddAll(Head(voters)).store
      /\ mPc' = "run" /\ voters' = Tail(voters)
      /\ UNCHANGED <<now, policies, lastEpoch, shutdowns, from, firstVotes>>
  BY DEF RunInitial, chainVars, listenerVars, inputVars
<1>2. store = <<>> /\ shutdowns = {}
  BY <1>1 DEF StoreInv
<1>3. lPc \in {"wait", "poll"}
  BY <1>1 DEF ChannelInv, ListenerInv
<1>4. PICK b \in Seq(Epochs) : voters = <<b>> /\ InitialBatch(b)
  BY <1>1, <1>3 DEF ChannelInv
<1>5. b # <<>> /\ b[Len(b)] = lastEpoch /\ Covers(b[1])
  BY <1>4 DEF InitialBatch
<1>6. Epochs \subseteq Nat /\ lastEpoch \in Nat
  BY <1>3, PolicyType DEF ListenerInv, Listening
<1>7. b \in Seq(Nat)
  BY <1>4, <1>6, SeqMonotonic
<1>8. Head(voters) = b /\ voters' = <<>>
  BY <1>1, <1>4
<1>9. store' = b /\ \A i \in DOMAIN b : b[i] = b[1] + i - 1
  BY <1>1, <1>2, <1>5, <1>7, <1>8, AddInitial
<1>10. Given' = lastEpoch /\ Last(b) = lastEpoch
  BY <1>1, <1>5, <1>8 DEF Given, Last
<1>11. Covers(store[1])'
  BY <1>1, <1>5, <1>9 DEF Covers, StartOf, Policy
<1>12. Last(store)' = lastEpoch
  BY <1>9, <1>10 DEF Last
<1>13. lastEpoch <= lastEpoch /\ ~(lastEpoch < lastEpoch)
  BY <1>6
<1> QED
  BY <1>1, <1>2, <1>5, <1>7, <1>9, <1>10, <1>11, <1>12, <1>13 DEF StoreInv, NoGap

\* A policy is stored, or the shutdown is scheduled for its first round.
LEMMA StoreAdds ==
    ASSUME ChainInv, TimesInv, ListenerInv, ChannelInv, StoreInv, OnSigningPolicies
    PROVE  /\ StoreInv'
           /\ shutdowns \subseteq shutdowns'
<1> DEFINE k == lastEpoch
           u == RoundStartTS(StartOf(k) + 1)
           st == AddAll(Head(voters))
<1>1. /\ mPc = "run" /\ voters # <<>> /\ mPc' = "run" /\ voters' = Tail(voters)
      /\ store' = RemoveBefore(st.store, lastRoundCreated) /\ shutdowns' = st.shutdowns
      /\ UNCHANGED <<now, policies, lastEpoch, from, firstVotes>>
  BY DEF OnSigningPolicies, chainVars, listenerVars, inputVars
<1>2. /\ voters = <<<<k>>>> /\ k > 0 /\ now < RoundStartTS(StartOf(k))
  BY <1>1 DEF ChannelInv
<1>3. Head(voters) = <<k>> /\ voters' = <<>>
  BY <1>1, <1>2
<1>4. /\ k \in Epochs /\ k \in Nat /\ StartOf(k) \in Nat /\ RoundStartTS(StartOf(k)) \in Nat
      /\ now \in Nat
  BY <1>1, Running, PolicyType DEF TimesInv, RoundsInv
<1>5. Given = k - 1 /\ Given' = k
  BY <1>1, <1>2, <1>3 DEF Given
<1> DEFINE l == Last(store)
<1>6. /\ NoGap(store) /\ l \in Epochs /\ l \in Nat /\ l <= k - 1
      /\ \A i \in DOMAIN store : store[i] \in Epochs /\ store[i] <= l
      /\ l = store[Len(store)]
  BY <1>1, <1>5, Running, PolicyType
<1>7. Covers(store[1]) /\ \A s \in shutdowns : s \in Nat /\ now <= s
  BY <1>1 DEF StoreInv
<1>8. l < k - 1 => RoundStartTS(StartOf(l + 1) + 1) \in shutdowns
  BY <1>1, <1>5 DEF StoreInv
<1>9. st = IF VotersDataCheck(k) /\ CanAdd(store, k)
           THEN [store |-> Append(store, k), shutdowns |-> shutdowns]
           ELSE [store |-> store, shutdowns |-> shutdowns \cup {u}]
  <2>1. AddAll(<<k>>) = OnSigningPolicy([store |-> store, shutdowns |-> shutdowns], k)
    BY AddOne
  <2> HIDE DEF k, u
  <2>2. st = OnSigningPolicy([store |-> store, shutdowns |-> shutdowns], k)
    BY <1>3, <2>1
  <2> HIDE DEF st
  <2> QED
    BY <2>2, OnSigningPolicyFields DEF u
<1>10. u \in Nat /\ now <= u
  <2>1. u = RoundStartTS(StartOf(k)) + CollectDurationSec
    BY <1>4, RoundStartOrder
  <2> QED
    BY <1>2, <1>4, <2>1, Constants
<1>11. /\ NoGap(st.store) /\ st.store[1] = store[1] /\ Last(st.store) \in Nat
       /\ Last(st.store) <= k
       /\ Last(st.store) < k => RoundStartTS(StartOf(Last(st.store) + 1) + 1) \in st.shutdowns
       /\ \A i \in DOMAIN st.store : st.store[i] \in Epochs /\ st.store[i] <= k
       /\ shutdowns \subseteq st.shutdowns
       /\ \A s \in st.shutdowns : s \in Nat /\ now <= s
  <2> HIDE DEF st, u
  <2>1. CASE VotersDataCheck(k) /\ CanAdd(store, k)
    <3> DEFINE n == Len(store)
               a == Append(store, k)
    <3>1. st.store = a /\ st.shutdowns = shutdowns
      BY <1>9, <2>1
    <3>2. /\ n \in Nat \ {0} /\ DOMAIN store = 1..n
          /\ \A i \in 1..n : store[i] \in Nat /\ store[i] = store[1] + i - 1
      BY <1>6, NoGapSeq
    <3>3. l + 1 = k
      BY <1>6, <2>1 DEF CanAdd, NoGap
    <3>4. store[n] = store[1] + n - 1
      BY <3>2
    <3>5. /\ a \in Seq(Nat) /\ Len(a) = n + 1 /\ a[n + 1] = k
          /\ \A i \in 1..n : a[i] = store[i]
      BY <1>4, <1>6 DEF NoGap
    <3> HIDE DEF n, a
    <3>6. DOMAIN a = 1..(n + 1) /\ a # <<>> /\ Last(a) = k /\ a[1] = store[1]
      BY <3>2, <3>5 DEF Last
    <3>7. \A i \in 1..(n + 1) : i \in 1..n \/ i = n + 1
      BY <3>2
    <3>8. k = store[1] + (n + 1) - 1
      <4>1. l = store[n] /\ store[1] \in Nat
        BY <1>6, <3>2 DEF n
      <4> QED
        BY <1>4, <3>2, <3>3, <3>4, <4>1
    <3>9. \A i \in DOMAIN a : a[i] = a[1] + i - 1
      BY <3>2, <3>5, <3>6, <3>7, <3>8
    <3>10. \A i \in DOMAIN a : a[i] \in Epochs /\ a[i] <= k
      <4>1. \A i \in 1..n : store[i] \in Epochs /\ store[i] \in Nat /\ store[i] <= l
        BY <1>6, <3>2
      <4> QED
        BY <1>4, <1>6, <3>3, <3>5, <3>6, <3>7, <4>1
    <3> HIDE DEF k, l
    <3>11. k <= k /\ ~(k < k)
      BY <1>4
    <3> QED
      BY <1>4, <1>7, <3>1, <3>5, <3>6, <3>9, <3>10, <3>11 DEF NoGap
  <2>2. CASE ~(VotersDataCheck(k) /\ CanAdd(store, k))
    <3>1. st.store = store /\ st.shutdowns = shutdowns \cup {u}
      BY <1>9, <2>2
    <3>2. l < k => RoundStartTS(StartOf(l + 1) + 1) \in shutdowns \cup {u}
      <4>1. CASE l < k - 1
        BY <1>8, <4>1
      <4>2. CASE l = k - 1
        <5>1. l + 1 = k
          BY <1>4, <4>2
        <5> HIDE DEF k, l
        <5> QED
          BY <5>1 DEF u
      <4> QED
        BY <1>4, <1>6, <4>1, <4>2
    <3>3. \A i \in DOMAIN store : store[i] \in Epochs /\ store[i] <= k
      BY <1>4, <1>6, PolicyType
    <3>4. l <= k
      BY <1>4, <1>6
    <3> HIDE DEF k, l
    <3> QED
      BY <1>6, <1>7, <1>10, <3>1, <3>2, <3>3, <3>4 DEF l
  <2> QED
    BY <2>1, <2>2
<1> HIDE DEF st
<1>12. /\ NoGap(store') /\ Last(store)' = Last(st.store)
       /\ \E m \in DOMAIN st.store : /\ store'[1] = st.store[m]
                                     /\ m > 1 => StartOf(st.store[m]) < lastRoundCreated
  <2>1. Last(store)' = Last(store')
    BY DEF Last
  <2> QED
    BY <1>1, <1>11, <2>1, RemoveBeforeKeeps
<1>13. Covers(store'[1])
  <2>1. PICK m \in DOMAIN st.store : /\ store'[1] = st.store[m]
                                     /\ m > 1 => StartOf(st.store[m]) < lastRoundCreated
    BY <1>12
  <2>2. m \in Nat /\ m > 0
    BY <1>11, NoGapSeq
  <2>3. CASE m = 1
    BY <1>7, <1>11, <2>1, <2>3
  <2>4. CASE m > 1
    <3> DEFINE e == st.store[m]
    <3>1. e \in Epochs /\ e <= k /\ e \in Nat /\ StartOf(e) \in Nat
      BY <1>11, PolicyType
    <3>2. /\ StartOf(e) < lastRoundCreated /\ lastRoundCreated \in Nat
          /\ RoundStartTS(lastRoundCreated) <= now
      BY <2>1, <2>4 DEF TimesInv, RoundsInv
    <3>3. RoundStartTS(StartOf(e)) < RoundStartTS(lastRoundCreated)
      BY <3>1, <3>2, RoundStartOrder
    <3>4. RoundStartTS(StartOf(e)) \in Nat /\ RoundStartTS(lastRoundCreated) \in Nat
      BY <3>1, <3>2, RoundStartType
    <3>5. e # k
      BY <1>2, <1>4, <3>2, <3>3, <3>4
    <3>6. e < k
      BY <1>4, <3>1, <3>5
    <3> QED
      BY <1>4, <2>1, <3>1, <3>6, CoversBefore
  <2> QED
    BY <2>2, <2>3, <2>4
<1>14. Covers(store[1])'
  BY <1>1, <1>13 DEF Covers, StartOf, Policy
<1>15. Last(store)' < Given' => RoundStartTS(StartOf(Last(store) + 1) + 1)' \in shutdowns'
  BY <1>1, <1>5, <1>11, <1>12 DEF StartOf, Policy, RoundStartTS
<1> QED
  BY <1>1, <1>5, <1>11, <1>12, <1>14, <1>15 DEF StoreInv, NoGap

\* The stored policies do not depend on what the others do.
LEMMA StoreKept ==
    ASSUME StoreInv,
           UNCHANGED <<now, policies, lastEpoch, voters, mPc, store, shutdowns, from,
                       firstVotes>>,
           mPc # "run" => rounds' = rounds
    PROVE  StoreInv'
BY DEF StoreInv, Given, Covers, Last, StartOf, Policy

\* There are none before the client runs.
LEMMA StoreEmpty ==
    ASSUME StoreInv, mPc # "run", mPc' # "run", UNCHANGED <<store, shutdowns, rounds>>
    PROVE  StoreInv'
BY DEF StoreInv

\* A new policy changes nothing for those that were given to the manager.
LEMMA StoreEmits ==
    ASSUME ChainInv, TimesInv, ListenerInv, ChannelInv, StoreInv, SigningPolicyInitialized
    PROVE  StoreInv'
<1>1. UNCHANGED <<now, lastEpoch, voters, mPc, store, shutdowns, rounds, from, firstVotes>>
  BY DEF SigningPolicyInitialized, listenerVars, storeVars, roundVars, inputVars
<1>2. CASE mPc # "run"
  BY <1>1, <1>2, StoreEmpty
<1>3. CASE mPc = "run"
  <2>1. \A e \in Epochs : StartOf(e)' = StartOf(e)
    BY PolicyEmitted
  <2> DEFINE a == store[1]
             l == Last(store)
  <2>2. a \in Epochs /\ l \in Epochs /\ Given \in Epochs /\ l <= Given
    BY <1>3, Running
  <2>3. \A e : e \in Epochs <=> e \in Nat /\ e < Len(policies)
    BY PolicyType
  <2>4. l < Given => l + 1 \in Epochs
    <3> HIDE DEF l
    <3>1. l \in Nat /\ Given \in Nat /\ Given < Len(policies) /\ Len(policies) \in Nat
      BY <2>2, <2>3, PolicyType
    <3>2. l < Given => l + 1 \in Nat /\ l + 1 < Len(policies)
      BY <3>1
    <3> QED
      BY <2>3, <3>2
  <2>5. StartOf(a)' = StartOf(a)
    BY <1>1, <2>1, <2>2 DEF StartOf, Policy
  <2>6. l < Given => StartOf(l + 1)' = StartOf(l + 1)
    BY <1>1, <2>1, <2>4 DEF StartOf, Policy, Last
  <2>7. Given' = Given /\ l' = l
    BY <1>1 DEF Given, Last
  <2>8. Covers(a)'
    BY <1>1, <1>3, <2>5 DEF StoreInv, Covers
  <2>9. l' < Given' => RoundStartTS(StartOf(l + 1)' + 1) \in shutdowns'
    BY <1>1, <1>3, <2>6, <2>7 DEF StoreInv
  <2>10. /\ NoGap(store)' /\ l' <= Given'
         /\ \A s \in shutdowns' : s \in Nat /\ now' <= s
    BY <1>1, <1>3, <2>7 DEF StoreInv, NoGap
  <2> QED
    BY <1>1, <1>3, <2>8, <2>9, <2>10 DEF StoreInv
<1> QED
  BY <1>2, <1>3

\* Time passes only up to the next shutdown.
LEMMA StoreWaits ==
    ASSUME ChainInv, TimesInv, ListenerInv, ChannelInv, StoreInv, TimePasses
    PROVE  StoreInv'
<1>1. /\ now' = now + 1 /\ \A s \in shutdowns : now < s
      /\ UNCHANGED <<policies, lastEpoch, voters, mPc, store, shutdowns, rounds, from,
                     firstVotes>>
  BY DEF TimePasses, listenerVars, storeVars, roundVars, inputVars
<1>2. now \in Nat
  BY DEF TimesInv, RoundsInv
<1>3. \A s \in shutdowns : s \in Nat /\ now' <= s
  BY <1>1, <1>2 DEF StoreInv
<1>4. CASE mPc # "run"
  BY <1>1, <1>4, StoreEmpty
<1>5. CASE mPc = "run"
  <2>1. store[1] \in Epochs
    BY <1>5, Running
  <2>2. Covers(store[1]) /\ RoundStartTS(StartOf(store[1])) \in Nat
    BY <1>5, <2>1, PolicyType DEF StoreInv
  <2>3. Covers(store[1])'
    <3>1. StartOf(store[1])' = StartOf(store[1])
      BY <1>1 DEF StartOf, Policy
    <3> QED
      BY <1>1, <1>2, <2>2, <3>1, Constants DEF Covers
  <2>4. Given' = Given /\ Last(store)' = Last(store)
        /\ StartOf(Last(store) + 1)' = StartOf(Last(store) + 1)
    BY <1>1 DEF Given, Last, StartOf, Policy
  <2> QED
    BY <1>1, <1>3, <1>5, <2>3, <2>4 DEF StoreInv
<1> QED
  BY <1>4, <1>5

\* A policy that is sent has not been given to the manager yet.
LEMMA StoreSends ==
    ASSUME ChainInv, TimesInv, ListenerInv, ChannelInv, StoreInv, spiTargetedListenerSends
    PROVE  StoreInv'
<1>1. /\ lPc \in {"sendInitial", "send"} /\ voters' = Append(voters, batch)
      /\ lPc = "send" => lastEpoch' = lastEpoch + 1
      /\ UNCHANGED <<now, policies, mPc, store, shutdowns, rounds, from, firstVotes>>
  BY DEF spiTargetedListenerSends, SendDue, chainVars, storeVars, roundVars, inputVars
<1>2. CASE lPc = "sendInitial"
  <2>1. mPc = "init"
    BY <1>2 DEF ChannelInv
  <2> QED
    BY <1>1, <2>1, StoreEmpty
<1>3. CASE lPc = "send"
  <2>1. mPc = "run" /\ voters = <<>>
    BY <1>3 DEF ChannelInv
  <2>2. lastEpoch \in Nat
    BY <2>1, Running, PolicyType
  <2>3. voters' # <<>>
    BY <1>1, <2>1
  <2>4. Given' = Given
    BY <1>1, <1>3, <2>1, <2>2, <2>3 DEF Given
  <2>5. /\ StartOf(store[1])' = StartOf(store[1]) /\ Last(store)' = Last(store)
        /\ StartOf(Last(store) + 1)' = StartOf(Last(store) + 1)
    BY <1>1 DEF Last, StartOf, Policy
  <2>6. Covers(store[1])'
    BY <1>1, <2>1, <2>5 DEF StoreInv, Covers
  <2> QED
    BY <1>1, <2>1, <2>4, <2>5, <2>6 DEF StoreInv
<1> QED
  BY <1>1, <1>2, <1>3

\* One step.
LEMMA StoreStep ==
    ChainInv /\ TimesInv /\ ListenerInv /\ ChannelInv /\ StoreInv /\ [Next]_vars
        => StoreInv'
<1> SUFFICES ASSUME ChainInv, TimesInv, ListenerInv, ChannelInv, StoreInv, [Next]_vars
             PROVE  StoreInv'
  OBVIOUS
<1>1. CASE Start
  BY <1>1, StoreEmpty DEF Start, storeVars, roundVars
<1>2. CASE Ends
  BY <1>2 DEF Ends, StoreInv
<1>3. CASE /\ UNCHANGED <<now, policies, lastEpoch, voters, mPc, store, shutdowns, from,
                          firstVotes>>
           /\ mPc # "run" => rounds' = rounds
  BY <1>3, StoreKept
<1>4. CASE SigningPolicyInitializedListener
  <2>1. mPc = "init" /\ UNCHANGED <<mPc, store, shutdowns, rounds>>
    BY <1>4 DEF SigningPolicyInitializedListener, ChannelInv, storeVars, roundVars
  <2> QED
    BY <2>1, StoreEmpty
<1>5. CASE RunInitial
  BY <1>2, <1>5, StoreInitial
<1>6. CASE OnSigningPolicies
  BY <1>6, StoreAdds
<1> QED
  BY <1>1, <1>2, <1>3, <1>4, <1>5, <1>6, StoreEmits, StoreWaits, StoreSends
  DEF Next, vars, chainVars, listenerVars, storeVars, roundVars, inputVars, Crash,
      scheduledShutdown, IndexerCatchesUp, queryNextSPI, queryNextSPIFails, OnRequest,
      OnBitVotes

-----------------------------------------------------------------------------
(* The policy of a round.                                                  *)

\* A policy whose first round has begun was given to the manager.
LEMMA BegunGiven ==
    ASSUME ChainInv, TimesInv, ListenerInv, ChannelInv, StoreInv, mPc = "run",
           NEW e \in Epochs, RoundStartTS(StartOf(e)) <= now
    PROVE  e <= Given
<1>1. /\ lastEpoch \in Epochs /\ Listening /\ lastEpoch \in Nat /\ e \in Nat
      /\ RoundStartTS(StartOf(e)) \in Nat /\ now \in Nat
  BY Running, PolicyType DEF TimesInv, RoundsInv
<1>2. e <= lastEpoch
  <2> SUFFICES ASSUME e > lastEpoch PROVE FALSE
    BY <1>1
  <2>1. now < RoundStartTS(StartOf(e))
    BY <1>1 DEF ListenerInv
  <2> QED
    BY <1>1, <2>1
<1>3. CASE voters = <<>>
  BY <1>2, <1>3 DEF Given
<1>4. CASE voters # <<>>
  <2>1. now < RoundStartTS(StartOf(lastEpoch))
    BY <1>4 DEF ChannelInv
  <2>2. e # lastEpoch
    BY <1>1, <2>1
  <2> QED
    BY <1>1, <1>2, <1>4, <2>2 DEF Given
<1> QED
  BY <1>3, <1>4

\* What a round of a message gets from the storage: the policy in force, or else
\* the client shuts down when the round has been collected.
LEMMA RoundPolicy ==
    ASSUME ChainInv, TimesInv, ListenerInv, ChannelInv, StoreInv, mPc = "run",
           NEW r, Open(r), firstVotes <= r \/ RoundIDForTS(from) <= r
    PROVE  \E e : /\ ForVotingRound(r) = {e}
                  /\ InForce(e, r) \/ \E s \in shutdowns : s <= RoundStartTS(r + 1)
<1> DEFINE n == Len(store)
           a == store[1]
           l == Last(store)
<1>1. /\ a \in Epochs /\ l \in Epochs /\ l = store[n] /\ l <= Given /\ Given \in Epochs
      /\ NoGap(store)
      /\ \A i \in DOMAIN store : store[i] \in Epochs /\ store[i] <= l
  BY Running
<1>2. /\ n \in Nat \ {0} /\ DOMAIN store = 1..n
      /\ \A i \in 1..n : store[i] \in Nat /\ store[i] = a + i - 1
  BY <1>1, NoGapSeq
<1>3. /\ r \in Nat /\ RoundStartTS(r) <= now /\ now <= ChooseEndTS(r) + Late
      /\ now \in Nat /\ from \in Nat /\ T0 <= from /\ firstVotes \in Nat
  BY DEF Open, TimesInv, RoundsInv
<1>4. \A e \in Epochs : e \in Nat /\ StartOf(e) \in Nat /\ RoundStartTS(StartOf(e)) \in Nat
  BY PolicyType
<1>5. StartOf(a) <= r
  <2>1. Covers(a) /\ StartOf(a) \in Nat /\ RoundStartTS(StartOf(a)) \in Nat
    BY <1>1, <1>4 DEF StoreInv
  <2>2. CASE StartOf(a) <= firstVotes /\ StartOf(a) <= RoundIDForTS(from)
    <3>1. RoundIDForTS(from) \in Nat
      BY <1>3, RoundOfTimestamp
    <3> QED
      BY <1>3, <2>1, <2>2, <3>1
  <2>3. CASE RoundStartTS(StartOf(a)) + ChooseDurationSec + Late < now
    <3>1. RoundStartTS(r + 1) \in Nat
      BY <1>3, RoundStartType
    <3>2. ChooseEndTS(r) = RoundStartTS(r + 1) + ChooseDurationSec
      BY DEF ChooseEndTS, ChooseStartTS
    <3>3. RoundStartTS(StartOf(a)) < RoundStartTS(r + 1)
      BY <1>3, <2>1, <2>3, <3>1, <3>2, Constants
    <3>4. StartOf(a) < r + 1
      BY <1>3, <2>1, <3>3, RoundStartOrder
    <3> QED
      BY <1>3, <2>1, <3>4
  <2> QED
    BY <2>1, <2>2, <2>3 DEF Covers
<1>6. /\ \A f \in ToSet(store) : f \in Nat /\ f \in Epochs /\ f <= l
      /\ a \in ToSet(store)
      /\ \A f \in Nat : a <= f /\ f <= l => f \in ToSet(store)
  <2>0. 1 \in 1..n
    BY <1>2
  <2>1. ToSet(store) = {store[i] : i \in 1..n}
    BY <1>2 DEF ToSet
  <2>2. \A i \in 1..n : store[i] \in Nat /\ store[i] \in Epochs /\ store[i] <= l
    BY <1>1, <1>2
  <2>3. a \in ToSet(store)
    BY <2>0, <2>1
  <2>4. ASSUME NEW f \in Nat, a <= f, f <= l PROVE f \in ToSet(store)
    <3>1. a \in Nat /\ l = a + n - 1
      BY <1>1, <1>2
    <3> HIDE DEF a, l, n
    <3>2. f - a + 1 \in 1..n
      BY <1>2, <2>4, <3>1
    <3>3. store[f - a + 1] = a + (f - a + 1) - 1
      BY <1>2, <3>2
    <3>4. store[f - a + 1] = f
      BY <3>1, <3>3
    <3> QED
      BY <2>1, <3>2, <3>4
  <2> HIDE DEF a, l, n
  <2> QED
    BY <2>1, <2>2, <2>3, <2>4
<1> DEFINE T == {f \in ToSet(store) : StartOf(f) <= r}
<1>7. PICK e \in T : \A f \in T : f <= e
  <2>1. T \in SUBSET Nat /\ a \in T /\ l \in Nat
    BY <1>1, <1>4, <1>5, <1>6
  <2>2. T # {} /\ \A f \in T : f <= l
    BY <1>6, <2>1
  <2> HIDE DEF T, a, l
  <2> QED
    BY <2>1, <2>2, GreatestNumber
<1>8. e \in ToSet(store) /\ e \in Epochs /\ e \in Nat /\ StartOf(e) <= r /\ e <= l
  BY <1>6, <1>7
<1>9. ForVotingRound(r) = {e}
  <2>1. e \in ForVotingRound(r)
    BY <1>7, <1>8 DEF ForVotingRound
  <2>2. ASSUME NEW f \in ForVotingRound(r) PROVE f = e
    <3>1. f \in ToSet(store) /\ StartOf(f) <= r /\ e <= f
      BY <1>8 DEF ForVotingRound
    <3>2. f \in T /\ f \in Nat
      BY <1>6, <3>1
    <3>3. f <= e
      BY <1>7, <3>2
    <3> QED
      BY <1>8, <3>1, <3>2, <3>3
  <2> QED
    BY <2>1, <2>2
<1>10. ASSUME NEW f \in Epochs, StartOf(f) <= r, ~(f <= e)
       PROVE  \E s \in shutdowns : s <= RoundStartTS(r + 1)
  <2>1. f \in Nat /\ StartOf(f) \in Nat /\ RoundStartTS(StartOf(f)) \in Nat
    BY <1>4
  <2>2. RoundStartTS(StartOf(f)) <= RoundStartTS(r) /\ RoundStartTS(r) \in Nat
    BY <1>3, <1>10, <2>1, RoundStartOrder, RoundStartType
  <2>3. f <= Given
    <3>1. RoundStartTS(StartOf(f)) <= now
      BY <1>3, <2>1, <2>2
    <3> QED
      BY <3>1, BegunGiven
  <2>4. ~(f <= l)
    <3> SUFFICES ASSUME f <= l PROVE FALSE
      OBVIOUS
    <3>1. a \in Nat /\ a <= e
      BY <1>1, <1>2, <1>4, <1>5, <1>6, <1>7
    <3>2. a <= f
      BY <1>8, <1>10, <2>1, <3>1
    <3>3. f \in T
      BY <1>6, <1>10, <2>1, <3>2
    <3> QED
      BY <1>7, <1>10, <3>3
  <2> HIDE DEF l
  <2>5. l \in Nat /\ Given \in Nat /\ l < f /\ l < Given /\ l + 1 <= f
    BY <1>1, <1>4, <2>1, <2>3, <2>4
  <2>6. RoundStartTS(StartOf(l + 1) + 1) \in shutdowns
    BY <2>5 DEF StoreInv, l
  <2>7. l + 1 \in Epochs
    <3>0. /\ Len(policies) \in Nat
          /\ \A g : g \in Epochs <=> g \in Nat /\ g < Len(policies)
      BY PolicyType
    <3>1. f < Len(policies)
      BY <3>0
    <3>2. l + 1 \in Nat /\ l + 1 < Len(policies)
      BY <2>1, <2>5, <3>0, <3>1
    <3> QED
      BY <3>0, <3>2
  <2>8. StartOf(l + 1) \in Nat /\ StartOf(l + 1) <= StartOf(f)
    <3>1. StartOf(l + 1) \in Nat
      BY <1>4, <2>7
    <3>2. CASE l + 1 = f
      BY <2>1, <3>1, <3>2
    <3>3. CASE l + 1 < f
      <4> DEFINE g == l + 1
      <4>1. g \in Epochs /\ g < f /\ StartOf(g) \in Nat
        BY <2>7, <3>1, <3>3
      <4> HIDE DEF g
      <4>2. StartOf(g) + Registration < StartOf(f)
        BY <4>1, StartsOrdered
      <4>3. StartOf(g) <= StartOf(f)
        BY <2>1, <4>1, <4>2, Constants
      <4> QED
        BY <3>1, <4>3 DEF g
    <3> QED
      BY <2>5, <2>1, <3>1, <3>2, <3>3
  <2> DEFINE u == StartOf(l + 1) + 1
  <2>9. u \in Nat /\ u <= r + 1
    BY <1>3, <1>10, <2>1, <2>8
  <2> HIDE DEF u
  <2>10. RoundStartTS(u) <= RoundStartTS(r + 1)
    BY <1>3, <2>9, RoundStartOrder
  <2> QED
    BY <2>6, <2>10 DEF u
<1> QED
  BY <1>8, <1>9, <1>10 DEF InForce

\* A message: its round has a policy, the right one unless the client shuts down.
LEMMA JudgedCreates ==
    ASSUME ChainInv, TimesInv, ListenerInv, ChannelInv, StoreInv, JudgedInv, mPc = "run",
           NEW r, Open(r), firstVotes <= r \/ RoundIDForTS(from) <= r, GetOrCreateRound(r)
    PROVE  /\ \A x \in rounds' : \/ InForce(x.epoch, x.id)
                                 \/ \E s \in shutdowns : s <= RoundStartTS(x.id + 1)
           /\ refused' = {}
<1>1. CASE Stored(r)
  BY <1>1 DEF GetOrCreateRound, JudgedInv, roundVars
<1>2. CASE ~Stored(r)
  <2>1. PICK e : /\ ForVotingRound(r) = {e}
                 /\ InForce(e, r) \/ \E s \in shutdowns : s <= RoundStartTS(r + 1)
    BY RoundPolicy
  <2> DEFINE x == [id |-> r, epoch |-> e]
  <2>2. {[id |-> r, epoch |-> f] : f \in ForVotingRound(r)} = {x}
    BY <2>1
  <2>3. /\ rounds' = {y \in rounds : Slot(y.id) # Slot(r)} \cup {x}
        /\ refused' = refused
    <3>1. {x} # {}
      OBVIOUS
    <3> QED
      BY <1>2, <2>2, <3>1 DEF GetOrCreateRound
  <2>4. x.id = r /\ x.epoch = e
    OBVIOUS
  <2> HIDE DEF x
  <2> QED
    BY <2>1, <2>3, <2>4 DEF JudgedInv
<1> QED
  BY <1>1, <1>2

\* There is one policy in force.
LEMMA OneInForce ==
    ASSUME ChainInv, NEW e, NEW r, InForce(e, r)
    PROVE  EpochOf(r) = e
<1> DEFINE P(x) == StartOf(x) <= r /\ \A f \in Epochs : StartOf(f) <= r => f <= x
<1>1. e \in Epochs /\ P(e)
  BY DEF InForce
<1>2. EpochOf(r) = CHOOSE x \in Epochs : P(x)
  BY DEF EpochOf
<1> DEFINE c == CHOOSE x \in Epochs : P(x)
<1>3. c \in Epochs /\ P(c)
  BY <1>1
<1>4. c <= e /\ e <= c
  BY <1>1, <1>3
<1>5. c \in Nat /\ e \in Nat
  BY <1>1, <1>3, PolicyType
<1> HIDE DEF c
<1>6. c = e
  BY <1>4, <1>5
<1> QED
  BY <1>2, <1>6 DEF c

\* When bitVotes are counted, the client is not about to shut down for the round.
LEMMA JudgedVotes ==
    ASSUME ChainInv, TimesInv, ListenerInv, ChannelInv, StoreInv, JudgedInv, OnBitVotes
    PROVE  JudgedInv'
<1>1. PICK r \in firstVotes..RoundIDForTS(now) :
        /\ ChooseEndTS(r) <= now /\ now <= ChooseEndTS(r) + Late
        /\ GetOrCreateRound(r)
        /\ misjudged' = misjudged \cup
              {x.id : x \in {y \in rounds' : y.id = r /\ y.epoch # EpochOf(r)}}
  BY DEF OnBitVotes
<1>2. mPc = "run" /\ UNCHANGED <<now, policies, shutdowns>>
  BY DEF OnBitVotes, chainVars, storeVars
<1>3. Open(r)
  BY <1>1, <1>2, VotesOpen DEF TimesInv
<1>4. firstVotes <= r /\ r \in Nat /\ now \in Nat
  BY <1>1, <1>2 DEF TimesInv, RoundsInv
<1>5. /\ \A x \in rounds' : \/ InForce(x.epoch, x.id)
                            \/ \E s \in shutdowns : s <= RoundStartTS(x.id + 1)
      /\ refused' = {}
  BY <1>1, <1>2, <1>3, <1>4, JudgedCreates
<1>6. ~\E s \in shutdowns : s <= RoundStartTS(r + 1)
  <2>1. RoundStartTS(r + 1) \in Nat /\ ChooseDurationSec \in Nat \ {0}
    BY <1>4, RoundStartType, TimingAssumption
  <2>2. RoundStartTS(r + 1) < now
    BY <1>1, <1>4, <2>1 DEF ChooseEndTS, ChooseStartTS
  <2>3. \A s \in shutdowns : s \in Nat /\ now <= s
    BY DEF StoreInv
  <2> QED
    BY <1>4, <2>1, <2>2, <2>3
<1>7. \A x \in rounds' : x.id = r => x.epoch = EpochOf(r)
  BY <1>5, <1>6, OneInForce
<1>8. misjudged' = {}
  BY <1>1, <1>7 DEF JudgedInv
<1>9. \A e, q : InForce(e, q)' = InForce(e, q)
  BY <1>2 DEF InForce, Epochs, StartOf, Policy
<1> QED
  BY <1>2, <1>5, <1>8, <1>9 DEF JudgedInv

\* A request creates its round under a policy.
LEMMA JudgedRequest ==
    ASSUME ChainInv, TimesInv, ListenerInv, ChannelInv, StoreInv, JudgedInv, OnRequest
    PROVE  JudgedInv'
<1>1. PICK r : Open(r) /\ GetOrCreateRound(r) /\ RoundIDForTS(from) <= r
  BY RequestOpen DEF TimesInv
<1>2. mPc = "run" /\ UNCHANGED <<now, policies, shutdowns, misjudged>>
  BY DEF OnRequest, chainVars, storeVars
<1>3. /\ \A x \in rounds' : \/ InForce(x.epoch, x.id)
                            \/ \E s \in shutdowns : s <= RoundStartTS(x.id + 1)
      /\ refused' = {}
  BY <1>1, <1>2, JudgedCreates
<1>4. \A e, q : InForce(e, q)' = InForce(e, q)
  BY <1>2 DEF InForce, Epochs, StartOf, Policy
<1> QED
  BY <1>2, <1>3, <1>4 DEF JudgedInv

\* A new policy begins after every round that has a policy.
LEMMA JudgedEmits ==
    ASSUME ChainInv, TimesInv, JudgedInv, SigningPolicyInitialized
    PROVE  JudgedInv'
<1>1. UNCHANGED <<rounds, shutdowns, misjudged, refused>>
  BY DEF SigningPolicyInitialized, storeVars, roundVars
<1>2. PICK n \in Nat :
        /\ Epochs' = Epochs \cup {n}
        /\ \A e \in Epochs : StartOf(e)' = StartOf(e)
        /\ StartOf(n)' = Larger(RoundIDForTS(ExpectedStartTS(n)),
                                RoundIDForTS(now) + MinDelay + 1)
  BY PolicyEmitted
<1> DEFINE s == StartOf(n)'
<1>3. s \in Nat /\ now < RoundStartTS(s)
  <2>1. now \in Nat /\ T0 <= now
    BY DEF TimesInv, RoundsInv
  <2> HIDE DEF s
  <2>2. s = Larger(RoundIDForTS(ExpectedStartTS(n)), RoundIDForTS(now) + MinDelay + 1)
    BY <1>2 DEF s
  <2> QED
    BY <2>1, <2>2, NewStart
<1>4. ASSUME NEW x \in rounds, InForce(x.epoch, x.id) PROVE InForce(x.epoch, x.id)'
  <2>1. x.id \in Nat /\ RoundStartTS(x.id) <= now /\ now \in Nat
    BY DEF TimesInv, RoundsInv
  <2>2. RoundStartTS(x.id) \in Nat /\ RoundStartTS(s) \in Nat
    BY <1>3, <2>1, RoundStartType
  <2>3. ~(s <= x.id)
    BY <1>3, <2>1, <2>2, RoundStartOrder
  <2> QED
    BY <1>2, <1>4, <2>3 DEF InForce
<1> QED
  BY <1>1, <1>4 DEF JudgedInv

\* One step.
LEMMA JudgedStep == Inv /\ [Next]_vars => JudgedInv'
<1> SUFFICES ASSUME Inv, [Next]_vars PROVE JudgedInv'
  OBVIOUS
<1>0. ChainInv /\ TimesInv /\ ListenerInv /\ ChannelInv /\ StoreInv /\ JudgedInv
  BY DEF Inv
<1>1. CASE Ends
  BY <1>0, <1>1 DEF Ends, JudgedInv
<1>2. CASE /\ UNCHANGED <<policies, rounds, misjudged, refused>>
           /\ shutdowns \subseteq shutdowns'
  <2>1. \A e, q : InForce(e, q)' = InForce(e, q)
    BY <1>2 DEF InForce, Epochs, StartOf, Policy
  <2> QED
    BY <1>0, <1>2, <2>1 DEF JudgedInv
<1>3. CASE OnSigningPolicies
  <2>1. shutdowns \subseteq shutdowns'
    BY <1>0, <1>3, StoreAdds
  <2>2. UNCHANGED <<policies, rounds, misjudged, refused>>
    BY <1>3 DEF OnSigningPolicies, chainVars, roundVars
  <2> QED
    BY <1>2, <2>1, <2>2
<1> QED
  BY <1>0, <1>1, <1>2, <1>3, JudgedEmits, JudgedRequest, JudgedVotes
  DEF Next, vars, chainVars, storeVars, roundVars, Crash, scheduledShutdown,
      IndexerCatchesUp, TimePasses, Start, SigningPolicyInitializedListener, queryNextSPI,
      queryNextSPIFails, spiTargetedListenerSends, RunInitial

-----------------------------------------------------------------------------
(* The theorems.                                                           *)

\* The invariant holds at first.
LEMMA InitInv == Init => Inv
<1> SUFFICES ASSUME Init PROVE Inv
  OBVIOUS
<1>1. RoundsInv
  BY TimingAssumption, PoliciesAssumption DEF Init, RoundsInv, RoundStartTS
<1>2. TimesInv
  <2>1. now = T0 /\ indexed = T0 - 1 /\ fails = 0
    BY DEF Init
  <2> QED
    BY <1>1, <2>1, Constants, HeadStart DEF TimesInv
<1>3. ChainInv
  <2> DEFINE P == [start : Nat, ts : Nat, registry : {"old", "new"}, regs : Registrations]
  <2>1. PICK regs \in Registrations :
            policies = <<[start |-> 0, ts |-> 0, registry |-> "old", regs |-> regs]>>
    BY DEF Init
  <2> DEFINE p == [start |-> 0, ts |-> 0, registry |-> "old", regs |-> regs]
  <2>2. p \in P /\ p.start = 0 /\ p.ts = 0
    OBVIOUS
  <2> HIDE DEF p, P
  <2>3. policies = <<p>>
    BY <2>1 DEF p
  <2>4. policies \in Seq(P) /\ policies # <<>> /\ Len(policies) = 1 /\ policies[1] = p
    BY <2>2, <2>3
  <2>5. Epochs = {0}
    BY <2>4 DEF Epochs
  <2>6. Policy(0) = p /\ StartOf(0) = 0
    BY <2>2, <2>4 DEF Policy, StartOf
  <2>7. RoundStartTS(0) = T0 /\ 0 < T0 /\ now = T0
    BY Constants DEF RoundStartTS, Init
  <2>8. ~(0 > 0) /\ ~(0 < 0)
    OBVIOUS
  <2> QED
    BY <2>2, <2>4, <2>5, <2>6, <2>7, <2>8, Constants DEF ChainInv, P
<1>4. ListenerInv /\ ChannelInv /\ StoreInv /\ JudgedInv
  BY DEF Init, ListenerInv, Listening, ChannelInv, StoreInv, JudgedInv
<1> QED
  BY <1>2, <1>3, <1>4 DEF Inv

\* What holds of the chain, the listener, the channel and the manager together,
\* for every client that starts when the database is not behind with a policy.
THEOREM PoliciesInv == ASSUME QuietStart PROVE Spec => []Inv
<1>1. Inv /\ [Next]_vars => Inv'
  BY ChainStep, TimesStep, ListenerStep, ChannelStep, StoreStep, JudgedStep DEF Inv
<1> QED
  BY <1>1, InitInv, PTL DEF Spec

\* A running client has every policy by the time its first round has begun, or
\* is going to shut down: whatever the lag of the database up to MaxLag, up to
\* MaxFails failed queries in a row, at any time of the start (spiTargetedListener).
THEOREM PolicyArrives == ASSUME QuietStart PROVE Spec => []PolicyInTime
<1>1. Inv => PolicyInTime
  <2> SUFFICES ASSUME Inv, mPc = "run", NEW e \in Epochs, RoundStartTS(StartOf(e)) < now
               PROVE  Last(store) >= e \/ shutdowns # {}
    BY DEF PolicyInTime
  <2>0. ChainInv /\ TimesInv /\ ListenerInv /\ ChannelInv /\ StoreInv
    BY DEF Inv
  <2>1. RoundStartTS(StartOf(e)) \in Nat /\ now \in Nat /\ e \in Nat
    BY <2>0, PolicyType DEF TimesInv, RoundsInv
  <2>2. e <= Given
    BY <2>0, <2>1, BegunGiven
  <2>3. Last(store) \in Nat /\ Given \in Nat
    BY <2>0, Running, PolicyType
  <2>4. Last(store) < Given => shutdowns # {}
    BY <2>0 DEF StoreInv
  <2> QED
    BY <2>1, <2>2, <2>3, <2>4
<1> QED
  BY <1>1, PoliciesInv, PTL

\* A query that finds a policy finds one, the next epoch's (queryNextSPI): the
\* next one is emitted only when the epoch of the one before has begun.
THEOREM OneAtATime == ASSUME QuietStart PROVE Spec => []OnePolicyPerQuery
<1>1. Inv => OnePolicyPerQuery
  BY DEF Inv, ListenerInv, OnePolicyPerQuery
<1> QED
  BY <1>1, PoliciesInv, PTL

\* Every result is computed with the voters of the policy in force in the round
\* (GetOrCreateRound, the scheduled shutdown in Manager.Run).
THEOREM RightPolicy == ASSUME QuietStart PROVE Spec => []ConsensusUnderRightPolicy
<1>1. Inv => ConsensusUnderRightPolicy
  BY DEF Inv, JudgedInv, ConsensusUnderRightPolicy
<1> QED
  BY <1>1, PoliciesInv, PTL

\* No message is refused for want of a policy: the initial query goes back far
\* enough, and RemoveBefore removes no policy that a round can still need.
THEOREM NothingRefused == ASSUME QuietStart PROVE Spec => []NoMessageRefused
<1>1. Inv => NoMessageRefused
  BY DEF Inv, JudgedInv, NoMessageRefused
<1> QED
  BY <1>1, PoliciesInv, PTL

=============================================================================
