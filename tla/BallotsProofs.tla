--------------------------- MODULE BallotsProofs ---------------------------
(* Proofs about Ballots, for all constants.                                *)
EXTENDS Ballots, FunctionTheorems, SequenceTheorems, FiniteSetTheorems,
        WellFoundedInduction, TLAPS

-----------------------------------------------------------------------------
(* The inductive invariant.                                                *)

LogIndex == [block : Nat, log : Nat]
Att == [request : Requests, indexes : Seq(LogIndex) \ {<<>>}, fee : Nat]

TypeInv ==
    /\ fetched \in [Clients -> Nat]
    /\ pending \in [Clients -> SUBSET Logs]
    /\ atts \in [Clients -> Seq(Att)]
    /\ lock \in [Clients -> {"free", "vote", "consensus"}]
    /\ held \in [Clients -> {<<>>} \cup {<<h>> : h \in [at : Nat, att : Att]}]
    /\ phase \in {"choose", "count", "done"}
    /\ DOMAIN server = {"pc", "calls", "room", "todo", "out", "settled"}
    /\ server.pc \in {"idle", "made", "read"}

\* The list of a client, once the second write of a swap is done.
Restored(c) ==
    IF held[c] = <<>> THEN atts[c]
    ELSE [atts[c] EXCEPT ![held[c][1].at] = held[c][1].att]

\* l is the first log of its request among A.
FirstIn(l, A) == l \in A /\ \A m \in A : m.request = l.request => l.pos <= m.pos

Fees(A) == MapThenSumSet(LAMBDA l : l.fee, A)
Of(A, r) == {l \in A : l.request = r}

\* s has the requests of A, each once, with its first log in front and all its
\* fees.
Lists(s, A) ==
    /\ \A i, j \in DOMAIN s : s[i].request = s[j].request => i = j
    /\ \A l \in A : \E i \in DOMAIN s : s[i].request = l.request
    /\ \A i \in DOMAIN s :
          /\ s[i].fee = Fees(Of(A, s[i].request))
          /\ \E l \in Logs : /\ FirstIn(l, A) /\ l.request = s[i].request
                             /\ Index(s[i]) = IndexLog(l)

ListInv ==
    \A c \in Clients :
        /\ lock[c] = "free" => held[c] = <<>>
        /\ held[c] # <<>> => held[c][1].at \in 1..Len(atts[c])
        /\ \A l \in pending[c] : l.block <= fetched[c]
        /\ Lists(Restored(c), Added(c))
        /\ ordered => Gapless(Added(c))

\* s is the order of the requests of A by their first logs.
OrderOf(s, A) ==
    /\ \A i \in DOMAIN s : \E l \in Logs : FirstIn(l, A) /\ l.request = s[i]
    /\ \A l \in A : \E i \in DOMAIN s : s[i] = l.request
    /\ \A i, j \in DOMAIN s : \A l, m \in Logs :
          i < j /\ FirstIn(l, A) /\ l.request = s[i] /\ FirstIn(m, A) /\ m.request = s[j]
             => l.pos < m.pos

Order(s) == \E A \in SUBSET Logs : Gapless(A) /\ OrderOf(s, A)

\* A bitVote encodes the meant requests by their places in an order.
Encodes(m) ==
    \E s \in Seq(Requests) :
        /\ (ordered \/ m.gapless => Order(s)) /\ Len(s) <= MaxUint16
        /\ \A r \in m.meant : \E i \in DOMAIN s : s[i] = r
        /\ m.payload = EncodeBitVote([length |-> Len(s),
                            bitVector |-> FromBits({i \in DOMAIN s : s[i] \in m.meant})])

\* The bitVotes the clients sent.
SentInv ==
    /\ IsFiniteSet(messages)
    /\ \E n \in Noise : messages \cap Noise = {n}
    /\ \A m \in messages \ Noise :
          \E i \in 1..Cardinality(messages \ Noise) :
              /\ i <= Len(TxIndexes)
              /\ m.pos = TxIndexes[i].pos /\ m.tx = TxIndexes[i].tx
    /\ \A m, n \in messages : m.pos = n.pos => m = n
    /\ \A m \in messages \ Noise : Encodes(m)

Voter(a) == /\ a \in DOMAIN SubmitToSigning
            /\ SubmitToSigning[a] \in DOMAIN VoterWeight
            /\ VoterWeight[SubmitToSigning[a]] > 0

\* Number of requests in the list the bitVotes are checked against.
Expected == IF phase = "done" THEN Len(input.order) ELSE Len(atts[Counter])

Usable(m, n) == Voter(m.from) /\ \E b \in DecodeBitVoteBytes(m.payload) : b.length = n

\* m is the last usable message of its sender among M.
LastUsable(m, M, n) ==
    /\ m \in M /\ Usable(m, n)
    /\ \A y \in M : y.from = m.from /\ Usable(y, n) => y.pos <= m.pos

CountInv ==
    /\ todo \subseteq messages
    /\ lock[Counter] = "consensus" => phase = "count" /\ todo = {}
    /\ phase = "choose" => counted = {}
    /\ phase = "count" => pending[Counter] = {}
    /\ phase = "done" => todo = {}
    /\ phase # "choose" =>
          /\ \A v \in counted : \E m \in messages :
                /\ LastUsable(m, messages \ todo, Expected)
                /\ v.from = m.from /\ v.tx = m.tx
                /\ v.bitVote \in DecodeBitVoteBytes(m.payload)
                /\ v.bitVote.length = Expected
          /\ \A y \in messages \ todo :
                Usable(y, Expected) => \E v \in counted : v.from = y.from

\* What the consensus was computed from, and what GetRequests reads after it.
ReqsOf(s) == [i \in DOMAIN s |-> s[i].request]

InputInv ==
    phase = "done" =>
        /\ input.order \in Seq(Requests)
        /\ Order(input.order)
        /\ input.complete =>
              /\ OrderOf(input.order, Logs)
              /\ AllFetched(Counter) /\ Sorted(Counter)
              /\ input.order = ReqsOf(atts[Counter])
              /\ \A i \in DOMAIN input.order :
                    input.fees[i] = Fees(Of(Logs, input.order[i]))

ServerInv ==
    /\ server.settled => phase = "done"
    /\ server.settled =>
          /\ input.complete
          /\ server.pc = "idle" => server.out = input.order
          /\ server.pc # "idle" => server.room = Len(input.order)
          /\ server.pc = "made" => server.out = <<>>
          /\ server.pc = "read" =>
                /\ server.todo = Len(input.order)
                /\ \E k \in 0..Len(input.order) : server.out = SubSeq(input.order, 1, k)

Inv == TypeInv /\ ListInv /\ SentInv /\ CountInv /\ InputInv /\ ServerInv

-----------------------------------------------------------------------------
(* Least elements, in place of inductions.                                 *)

\* A set of numbers has a least one.
LEMMA LeastNumber ==
    ASSUME NEW T \in SUBSET Nat, T # {}
    PROVE  \E x \in T : \A y \in T : x <= y
<1>1. PICK x \in T : \A y \in T : ~(<<y, x>> \in OpToRel(<, Nat))
  BY WFMin, NatLessThanWellFounded
<1>2. \A y \in T : ~(y < x)
  BY <1>1 DEF OpToRel
<1> QED
  BY <1>2

\* A set of sets of logs has one without a smaller one.
LEMMA LeastLogs ==
    ASSUME NEW F \in SUBSET (SUBSET Logs), F # {}
    PROVE  \E S \in F : \A U \in SUBSET S : U \in F => U = S
<1>1. FiniteSubsetsOf(Logs) = SUBSET Logs
  BY FS_FiniteSubsetsOfFinite, LogsAssumption
<1>2. PICK S \in F : \A U \in F : ~(<<U, S>> \in StrictSubsetOrdering(Logs))
  BY <1>1, WFMin, FS_StrictSubsetOrderingWellFounded
<1> QED
  BY <1>2 DEF StrictSubsetOrdering

-----------------------------------------------------------------------------
(* Sums of fees.  The fold that defines them picks the logs one by one.    *)

Pick(s) == CHOOSE x \in s : TRUE

IsFold(g, S) ==
    g = [s \in SUBSET S |-> IF s = {} THEN 0
                            ELSE Pick(s).fee + g[s \ {Pick(s)}]]

\* Fees is the value of such a fold.
LEMMA FeesFold ==
    ASSUME NEW S
    PROVE  Fees(S) = (CHOOSE g : IsFold(g, S))[S]
BY DEF Fees, MapThenSumSet, MapThenFoldSet, IsFold, Pick

\* Picking takes an element.
LEMMA PickIn == ASSUME NEW s, s # {} PROVE Pick(s) \in s
BY DEF Pick

\* Two folds agree where both are defined.
LEMMA FoldsAgree ==
    ASSUME NEW u \in SUBSET Logs, NEW w \in SUBSET u, NEW g, NEW h,
           IsFold(g, u), IsFold(h, w)
    PROVE  g[w] = h[w]
<1> DEFINE F == {t \in SUBSET Logs : t \subseteq w /\ g[t] # h[t]}
<1> SUFFICES ASSUME g[w] # h[w] PROVE FALSE
  OBVIOUS
<1>0. w \in F
  OBVIOUS
<1>1. PICK t \in F : \A x \in SUBSET t : x \in F => x = t
  BY <1>0, LeastLogs
<1> DEFINE p == Pick(t)
<1>2. /\ g[t] = IF t = {} THEN 0 ELSE p.fee + g[t \ {p}]
      /\ h[t] = IF t = {} THEN 0 ELSE p.fee + h[t \ {p}]
  <2>1. t \in SUBSET u /\ t \in SUBSET w
    OBVIOUS
  <2> QED
    BY <2>1 DEF IsFold
<1>3. CASE t = {}
  BY <1>2, <1>3
<1>4. CASE t # {}
  <2>1. p \in t
    BY <1>4, PickIn
  <2>2. t \ {p} \notin F
    BY <1>1, <2>1
  <2>3. g[t \ {p}] = h[t \ {p}]
    BY <2>2
  <2> QED
    BY <1>2, <1>4, <2>3
<1> QED
  BY <1>3, <1>4

\* There is a fold over every set of logs.
LEMMA FoldExists ==
    ASSUME NEW S \in SUBSET Logs
    PROVE  \E g : IsFold(g, S)
<1> DEFINE F == {t \in SUBSET Logs : ~\E g : IsFold(g, t)}
<1> SUFFICES ASSUME F # {} PROVE FALSE
  OBVIOUS
<1>1. PICK t \in F : \A x \in SUBSET t : x \in F => x = t
  BY LeastLogs
<1>2. ASSUME NEW x \in SUBSET t, x # t
      PROVE  \E g : IsFold(g, x) /\ Fees(x) = g[x]
  <2>1. \E g : IsFold(g, x)
    BY <1>1, <1>2
  <2> QED
    BY <2>1, FeesFold
<1> DEFINE G == [s \in SUBSET t |-> IF s = {} THEN 0
                                   ELSE Pick(s).fee + Fees(s \ {Pick(s)})]
<1>3. ASSUME NEW s \in SUBSET t, s # {}
      PROVE  G[s \ {Pick(s)}] = Fees(s \ {Pick(s)})
  <2> DEFINE u == s \ {Pick(s)}
             v == u \ {Pick(u)}
  <2>1. Pick(s) \in s
    BY <1>3, PickIn
  <2>2. u \in SUBSET t /\ u # t
    BY <2>1
  <2>3. PICK g : IsFold(g, u) /\ Fees(u) = g[u]
    BY <1>2, <2>2
  <2>4. g[u] = IF u = {} THEN 0 ELSE Pick(u).fee + g[v]
    <3>1. u \in SUBSET u
      OBVIOUS
    <3> QED
      BY <2>3, <3>1 DEF IsFold
  <2>5. v \in SUBSET t /\ v # t
    BY <2>2
  <2>6. PICK h : IsFold(h, v) /\ Fees(v) = h[v]
    BY <1>2, <2>5
  <2>7. g[v] = h[v]
    <3>1. u \in SUBSET Logs /\ v \in SUBSET u
      BY <2>2
    <3> HIDE DEF u, v
    <3> QED
      BY <2>3, <2>6, <3>1, FoldsAgree
  <2>8. G[u] = IF u = {} THEN 0 ELSE Pick(u).fee + Fees(v)
    BY <2>2
  <2> QED
    BY <2>3, <2>4, <2>6, <2>7, <2>8
<1>4. IsFold(G, t)
  BY <1>3 DEF IsFold
<1> QED
  BY <1>4

\* The sum of fees, one picked log after the other.
LEMMA FeesStep ==
    ASSUME NEW S \in SUBSET Logs
    PROVE  Fees(S) = IF S = {} THEN 0 ELSE Pick(S).fee + Fees(S \ {Pick(S)})
<1> DEFINE u == S \ {Pick(S)}
<1>1. PICK g : IsFold(g, S) /\ Fees(S) = g[S]
  BY FoldExists, FeesFold
<1>2. g[S] = IF S = {} THEN 0 ELSE Pick(S).fee + g[u]
  <2>1. S \in SUBSET S
    OBVIOUS
  <2> QED
    BY <1>1, <2>1 DEF IsFold
<1>3. u \in SUBSET Logs /\ u \in SUBSET S
  OBVIOUS
<1> HIDE DEF u
<1>4. PICK h : IsFold(h, u) /\ Fees(u) = h[u]
  BY <1>3, FoldExists, FeesFold
<1>5. g[u] = h[u]
  BY <1>1, <1>3, <1>4, FoldsAgree
<1> QED
  BY <1>1, <1>2, <1>4, <1>5 DEF u

\* A sum of fees is a number.
LEMMA FeesType ==
    ASSUME NEW S \in SUBSET Logs
    PROVE  Fees(S) \in Nat
<1> DEFINE F == {t \in SUBSET Logs : Fees(t) \notin Nat}
<1> SUFFICES ASSUME F # {} PROVE FALSE
  OBVIOUS
<1>1. PICK t \in F : \A x \in SUBSET t : x \in F => x = t
  BY LeastLogs
<1>2. CASE t = {}
  <2>1. Fees({}) = 0
    BY FeesStep
  <2> QED
    BY <1>2, <2>1
<1>3. CASE t # {}
  <2>1. Pick(t) \in t /\ Pick(t).fee \in Nat
    BY <1>3, PickIn, LogsAssumption
  <2>2. Fees(t \ {Pick(t)}) \in Nat
    BY <1>1, <2>1
  <2> QED
    BY <1>3, <2>1, <2>2, FeesStep
<1> QED
  BY <1>2, <1>3

\* The order in which the fees are added does not matter.
LEMMA FeesRemove ==
    ASSUME NEW S \in SUBSET Logs, NEW y \in S
    PROVE  Fees(S) = Fees(S \ {y}) + y.fee
<1> DEFINE F == {t \in SUBSET Logs : \E l \in t : Fees(t) # Fees(t \ {l}) + l.fee}
<1> SUFFICES ASSUME F # {} PROVE FALSE
  OBVIOUS
<1>1. PICK t \in F : \A x \in SUBSET t : x \in F => x = t
  BY LeastLogs
<1>2. PICK l \in t : Fees(t) # Fees(t \ {l}) + l.fee
  OBVIOUS
<1>3. PICK p \in t : Fees(t) = p.fee + Fees(t \ {p})
  BY PickIn, FeesStep
<1>4. ASSUME NEW x \in SUBSET t, x # t, NEW k \in x
      PROVE  Fees(x) = Fees(x \ {k}) + k.fee
  BY <1>1, <1>4
<1>5. /\ p.fee \in Nat /\ l.fee \in Nat
      /\ Fees(t \ {p}) \in Nat /\ Fees((t \ {p}) \ {l}) \in Nat
  BY FeesType, LogsAssumption
<1> HIDE DEF F
<1>6. l # p
  <2> SUFFICES ASSUME l = p PROVE FALSE
    OBVIOUS
  <2>1. Fees(t) = l.fee + Fees(t \ {l}) /\ Fees(t \ {l}) \in Nat
    BY <1>3, <1>5
  <2> QED
    BY <1>2, <1>5, <2>1
<1>7. Fees(t \ {p}) = Fees((t \ {p}) \ {l}) + l.fee
  BY <1>4, <1>6
<1>8. Fees(t \ {l}) = Fees((t \ {l}) \ {p}) + p.fee
  BY <1>4, <1>6
<1>9. (t \ {l}) \ {p} = (t \ {p}) \ {l}
  OBVIOUS
<1> DEFINE rest == Fees((t \ {p}) \ {l})
<1>10. Fees(t) = p.fee + (rest + l.fee) /\ Fees(t \ {l}) = rest + p.fee /\ rest \in Nat
  BY <1>3, <1>5, <1>7, <1>8, <1>9
<1> HIDE DEF rest
<1> QED
  BY <1>2, <1>5, <1>10

-----------------------------------------------------------------------------
(* Logs.                                                                   *)

\* The clients' order of two logs is that of the chain.
LEMMA LogOrder ==
    ASSUME NEW l \in Logs, NEW m \in Logs
    PROVE  /\ IndexLog(l) \in LogIndex
           /\ EarlierLog(IndexLog(l), IndexLog(m)) <=> l.pos < m.pos
BY LogsAssumption DEF IndexLog, LogIndex, EarlierLog, ChainOrder

\* LastBlock is the block of a log, and no log has a later one.
LEMMA LastBlockIsLast ==
    /\ LastBlock \in Nat
    /\ \A l \in Logs : l.block <= LastBlock
<1> DEFINE F == {t \in SUBSET Logs :
                    t # {} /\ ~\E l \in t : \A m \in t : m.block <= l.block}
<1>1. F = {}
  <2> SUFFICES ASSUME F # {} PROVE FALSE
    OBVIOUS
  <2>1. PICK t \in F : \A x \in SUBSET t : x \in F => x = t
    BY LeastLogs
  <2>2. PICK l \in t : TRUE
    OBVIOUS
  <2>3. \A m \in t : m.block \in Nat
    BY LogsAssumption
  <2>4. t \ {l} # {}
    <3> SUFFICES ASSUME t \ {l} = {} PROVE FALSE
      OBVIOUS
    <3>1. \A m \in t : m = l
      OBVIOUS
    <3>2. \A m \in t : m.block <= l.block
      BY <2>3, <3>1
    <3> QED
      BY <3>2
  <2>5. PICK k \in t \ {l} : \A m \in t \ {l} : m.block <= k.block
    <3>1. t \ {l} \notin F
      <4>1. t \ {l} \in SUBSET t /\ t \ {l} # t
        OBVIOUS
      <4> HIDE DEF F
      <4> QED
        BY <2>1, <4>1
    <3> QED
      BY <2>4, <3>1
  <2>6. k.block <= l.block \/ l.block <= k.block
    BY <2>3
  <2> QED
    BY <2>3, <2>5, <2>6
<1>2. PICK l \in Logs : \A m \in Logs : m.block <= l.block
  BY <1>1, LogsAssumption
<1> DEFINE B == {m.block : m \in Logs}
<1>3. l.block \in B /\ \A y \in B : l.block >= y
  BY <1>2, LogsAssumption
<1>4. LastBlock \in B /\ \A y \in B : LastBlock >= y
  BY <1>3 DEF LastBlock, Max
<1> QED
  BY <1>4, LogsAssumption

\* A request has one first log.
LEMMA OneFirst ==
    ASSUME NEW A \in SUBSET Logs, NEW l \in Logs, NEW m \in Logs,
           FirstIn(l, A), FirstIn(m, A), l.request = m.request
    PROVE  l = m
<1>1. l.pos <= m.pos /\ m.pos <= l.pos /\ l.pos \in Nat /\ m.pos \in Nat
  BY LogsAssumption DEF FirstIn
<1> QED
  BY <1>1, LogsAssumption

-----------------------------------------------------------------------------
(* Orders of requests.                                                     *)

\* Of two closed sets of logs, the first log of a request in one that is in the
\* other is its first log there.
LEMMA FirstInBoth ==
    ASSUME NEW A \in SUBSET Logs, NEW B \in SUBSET Logs, Gapless(A),
           NEW l \in B, FirstIn(l, A)
    PROVE  FirstIn(l, B)
<1> SUFFICES ASSUME NEW m \in B, m.request = l.request PROVE l.pos <= m.pos
  BY DEF FirstIn
<1>1. l \in A /\ l.pos \in Nat /\ m.pos \in Nat /\ m \in Logs
  BY LogsAssumption DEF FirstIn
<1>2. m.pos <= l.pos => m \in A
  BY <1>1 DEF Gapless
<1> QED
  BY <1>1, <1>2 DEF FirstIn

\* Of two closed sets of logs, one has all logs of the other.
LEMMA GaplessChain ==
    ASSUME NEW A \in SUBSET Logs, NEW B \in SUBSET Logs, Gapless(A), Gapless(B)
    PROVE  A \subseteq B \/ B \subseteq A
<1> SUFFICES ASSUME NEW l \in A, l \notin B, NEW m \in B, m \notin A PROVE FALSE
  OBVIOUS
<1>1. l.pos <= m.pos \/ m.pos <= l.pos
  BY LogsAssumption
<1> QED
  BY <1>1 DEF Gapless

\* The requests of a smaller closed set are where they are in a larger one.
LEMMA OrderPrefix ==
    ASSUME NEW A \in SUBSET Logs, NEW B \in SUBSET Logs, Gapless(A), Gapless(B),
           A \subseteq B, NEW s \in Seq(Requests), NEW t \in Seq(Requests),
           OrderOf(s, A), OrderOf(t, B), NEW n \in Nat, n <= Len(s), n <= Len(t)
    PROVE  \A i \in 1..n : s[i] = t[i]
<1> DEFINE D == {i \in 1..n : s[i] # t[i]}
<1> SUFFICES ASSUME D # {} PROVE FALSE
  OBVIOUS
<1>1. PICK k \in D : \A i \in D : k <= i
  <2>1. D \in SUBSET Nat
    OBVIOUS
  <2> QED
    BY <2>1, LeastNumber
<1>2. \A i \in 1..n : i < k => s[i] = t[i]
  BY <1>1
<1>3. k \in 1..n /\ s[k] # t[k] /\ DOMAIN s = 1..Len(s) /\ DOMAIN t = 1..Len(t)
      /\ Len(s) \in Nat /\ Len(t) \in Nat
  BY LenProperties
<1> HIDE DEF D
<1>4. PICK l \in Logs : FirstIn(l, A) /\ l.request = s[k]
  BY <1>3 DEF OrderOf
<1>5. PICK m \in Logs : FirstIn(m, B) /\ m.request = t[k]
  BY <1>3 DEF OrderOf
<1>6. l \in A /\ l \in B /\ m \in B
  BY <1>4, <1>5 DEF FirstIn
<1>7. FirstIn(l, B)
  BY <1>4, <1>6, FirstInBoth
<1>8. PICK j \in 1..Len(t) : t[j] = l.request
  BY <1>3, <1>6 DEF OrderOf
<1>9. ~(j < k)
  <2> SUFFICES ASSUME j < k PROVE FALSE
    OBVIOUS
  <2>1. s[j] = s[k] /\ j \in DOMAIN s /\ k \in DOMAIN s
    BY <1>2, <1>3, <1>4, <1>8
  <2>2. l.pos < l.pos
    BY <1>4, <2>1 DEF OrderOf
  <2> QED
    BY <2>2, LogsAssumption
<1>10. k < j
  BY <1>3, <1>4, <1>8, <1>9
<1>11. m.pos < l.pos
  BY <1>3, <1>5, <1>7, <1>8, <1>10 DEF OrderOf
<1>12. m \in A
  <2>1. m.pos <= l.pos
    BY <1>11, LogsAssumption
  <2> QED
    BY <1>6, <2>1 DEF Gapless
<1>13. FirstIn(m, A)
  BY <1>5, <1>12, FirstInBoth
<1>14. PICK i \in 1..Len(s) : s[i] = m.request
  BY <1>3, <1>12 DEF OrderOf
<1>15. i # k
  BY <1>3, <1>5, <1>14
<1>16. ~(k < i)
  <2> SUFFICES ASSUME k < i PROVE FALSE
    OBVIOUS
  <2>1. l.pos < m.pos
    BY <1>3, <1>4, <1>13, <1>14 DEF OrderOf
  <2> QED
    BY <1>11, <2>1, LogsAssumption
<1>17. i < k /\ i \in 1..n /\ i \in DOMAIN t /\ k \in DOMAIN t
  BY <1>3, <1>14, <1>15, <1>16
<1>18. t[i] = t[k]
  BY <1>2, <1>5, <1>14, <1>17
<1>19. m.pos < m.pos
  BY <1>5, <1>17, <1>18 DEF OrderOf
<1> QED
  BY <1>19, LogsAssumption

\* Two clients with as many requests have them in the same order.
LEMMA OrdersAgree ==
    ASSUME NEW s \in Seq(Requests), NEW t \in Seq(Requests),
           Order(s), Order(t), Len(s) = Len(t)
    PROVE  s = t
<1>1. PICK A \in SUBSET Logs : Gapless(A) /\ OrderOf(s, A)
  BY DEF Order
<1>2. PICK B \in SUBSET Logs : Gapless(B) /\ OrderOf(t, B)
  BY DEF Order
<1> DEFINE n == Len(s)
<1>3. n \in Nat /\ n <= Len(s) /\ n <= Len(t)
  BY LenProperties
<1> HIDE DEF n
<1>4. \A i \in 1..n : s[i] = t[i]
  <2>1. CASE A \subseteq B
    BY <1>1, <1>2, <1>3, <2>1, OrderPrefix
  <2>2. CASE B \subseteq A
    <3>1. \A i \in 1..n : t[i] = s[i]
      BY <1>1, <1>2, <1>3, <2>2, OrderPrefix
    <3> QED
      BY <3>1
  <2> QED
    BY <1>1, <1>2, <2>1, <2>2, GaplessChain
<1> QED
  BY <1>4, SeqEqual DEF n

-----------------------------------------------------------------------------
(* Lists of requests.                                                      *)

\* An element of a list.
LEMMA AttAt ==
    ASSUME NEW s \in Seq(Att), NEW i \in DOMAIN s
    PROVE  /\ s[i] \in Att /\ s[i].request \in Requests /\ s[i].fee \in Nat
           /\ s[i].indexes \in Seq(LogIndex) /\ s[i].indexes # <<>>
           /\ Index(s[i]) \in LogIndex
<1>1. s[i] \in Att
  BY LenProperties, ElementOfSeq
<1> QED
  BY <1>1, HeadTailProperties DEF Att, Index

\* Merging a log keeps the earlier one in front and adds its fee.
LEMMA MergedAtt ==
    ASSUME NEW a \in Att, NEW l \in Logs
    PROVE  /\ Merged(a, l) \in Att
           /\ Merged(a, l).request = a.request
           /\ Merged(a, l).fee = a.fee + l.fee
           /\ Index(Merged(a, l)) = IF EarlierLog(IndexLog(l), Index(a))
                                    THEN IndexLog(l) ELSE Index(a)
<1> DEFINE x == IndexLog(l)
           p == a.indexes
           q == IF EarlierLog(x, Index(a)) THEN Prepended(p, x) ELSE Append(p, x)
<1>1. x \in LogIndex /\ l.fee \in Nat
  BY LogOrder, LogsAssumption
<1>2. /\ a.request \in Requests /\ a.fee \in Nat
      /\ p \in Seq(LogIndex) /\ p # <<>> /\ Index(a) = Head(p)
  BY DEF Att, Index
<1> HIDE DEF x, p
<1>3. /\ Append(p, x) \in Seq(LogIndex) \ {<<>>} /\ Head(Append(p, x)) = Head(p)
  BY <1>1, <1>2
<1>4. /\ Prepended(p, x) \in Seq(LogIndex) \ {<<>>} /\ Head(Prepended(p, x)) = x
  <2> DEFINE u == Tail(p) \o <<Head(p)>>
  <2>1. Tail(p) \in Seq(LogIndex) /\ Head(p) \in LogIndex
    BY <1>2
  <2>2. u \in Seq(LogIndex)
    BY <2>1
  <2>3. Prepended(p, x) = <<x>> \o u
    BY <1>1, <2>1 DEF Prepended
  <2> HIDE DEF u
  <2>4. <<x>> \o u \in Seq(LogIndex) /\ <<x>> \o u # <<>> /\ Head(<<x>> \o u) = x
    BY <1>1, <2>2
  <2> QED
    BY <2>3, <2>4
<1>5. q \in Seq(LogIndex) \ {<<>>}
  BY <1>3, <1>4
<1>6. Head(q) = IF EarlierLog(x, Index(a)) THEN x ELSE Head(p)
  BY <1>3, <1>4
<1>7. Merged(a, l) = [a EXCEPT !.fee = a.fee + l.fee, !.indexes = q]
  BY DEF Merged, x, p
<1> HIDE DEF q
<1>8. /\ Merged(a, l) \in Att /\ Merged(a, l).request = a.request
      /\ Merged(a, l).fee = a.fee + l.fee /\ Merged(a, l).indexes = q
  <2>1. a.fee + l.fee \in Nat
    BY <1>1, <1>2
  <2>2. Merged(a, l) = [request |-> a.request, indexes |-> q, fee |-> a.fee + l.fee]
    BY <1>7 DEF Att
  <2> QED
    BY <1>2, <1>5, <2>1, <2>2 DEF Att
<1> QED
  BY <1>2, <1>6, <1>8 DEF Index, x

\* The logs of a request, with one more.
LEMMA OfAdded ==
    ASSUME NEW A \in SUBSET Logs, NEW l \in Logs \ A, NEW r
    PROVE  /\ r = l.request => Fees(Of(A \cup {l}, r)) = Fees(Of(A, r)) + l.fee
           /\ r # l.request => Fees(Of(A \cup {l}, r)) = Fees(Of(A, r))
<1>1. CASE r = l.request
  <2> DEFINE S == Of(A \cup {l}, r)
  <2>1. S \in SUBSET Logs /\ l \in S /\ S \ {l} = Of(A, r)
    BY <1>1 DEF Of
  <2>2. Fees(S) = Fees(S \ {l}) + l.fee
    <3> HIDE DEF S
    <3> QED
      BY <2>1, FeesRemove
  <2> QED
    BY <1>1, <2>1, <2>2
<1>2. CASE r # l.request
  <2>1. Of(A \cup {l}, r) = Of(A, r)
    BY <1>2 DEF Of
  <2> QED
    BY <1>2, <2>1
<1> QED
  BY <1>1, <1>2

\* The list for a log of a new request (AddAttestation).
LEMMA ListAppended ==
    ASSUME NEW A \in SUBSET Logs, NEW l \in Logs \ A, NEW s \in Seq(Att),
           Lists(s, A), \A i \in DOMAIN s : s[i].request # l.request,
           NEW t, t = Append(s, [request |-> l.request,
                                 indexes |-> <<IndexLog(l)>>, fee |-> l.fee])
    PROVE  t \in Seq(Att) /\ Lists(t, A \cup {l})
<1> DEFINE a == [request |-> l.request, indexes |-> <<IndexLog(l)>>, fee |-> l.fee]
           B == A \cup {l}
           n == Len(s)
<1>1. a \in Att /\ a.request = l.request /\ a.fee = l.fee /\ Index(a) = IndexLog(l)
  <2>1. IndexLog(l) \in LogIndex /\ l.fee \in Nat /\ l.request \in Requests
    BY LogOrder, LogsAssumption DEF Requests
  <2> HIDE DEF LogIndex, Requests
  <2>2. <<IndexLog(l)>> \in Seq(LogIndex) \ {<<>>} /\ Head(<<IndexLog(l)>>) = IndexLog(l)
    BY <2>1
  <2> QED
    BY <2>1, <2>2 DEF Att, Index
<1> HIDE DEF a
<1>2. /\ t \in Seq(Att) /\ n \in Nat /\ DOMAIN s = 1..n /\ DOMAIN t = 1..(n + 1)
      /\ \A i \in 1..n : t[i] = s[i]
      /\ t[n + 1] = a
  <2>1. t = Append(s, a)
    BY DEF a
  <2> QED
    BY <1>1, <2>1
<1> HIDE DEF n
<1>3. \A m \in A : m.request # l.request
  BY DEF Lists
<1>4. FirstIn(l, B)
  BY <1>3, LogsAssumption DEF FirstIn
<1>5. \A m \in Logs : FirstIn(m, A) => FirstIn(m, B)
  BY <1>3 DEF FirstIn
<1>6. l.fee = Fees(Of(B, l.request))
  <2>1. Of(A, l.request) = {}
    BY <1>3 DEF Of
  <2>2. Fees({}) = 0
    BY FeesStep
  <2>3. l.fee \in Nat
    BY LogsAssumption
  <2>4. Fees(Of(B, l.request)) = Fees(Of(A, l.request)) + l.fee
    BY OfAdded
  <2> QED
    BY <2>1, <2>2, <2>3, <2>4
<1>7. \A i, j \in DOMAIN t : t[i].request = t[j].request => i = j
  <2> SUFFICES ASSUME NEW i \in 1..(n + 1), NEW j \in 1..(n + 1),
                      t[i].request = t[j].request
               PROVE  i = j
    BY <1>2
  <2>1. \A k \in 1..n : t[k].request # t[n + 1].request
    BY <1>1, <1>2
  <2>2. (i \in 1..n \/ i = n + 1) /\ (j \in 1..n \/ j = n + 1)
    BY <1>2
  <2> QED
    BY <1>2, <2>1, <2>2 DEF Lists
<1>8. \A m \in B : \E i \in DOMAIN t : t[i].request = m.request
  <2>1. n + 1 \in DOMAIN t /\ t[n + 1].request = l.request
    BY <1>1, <1>2
  <2>2. \A m \in A : \E i \in DOMAIN t : t[i].request = m.request
    <3> SUFFICES ASSUME NEW m \in A PROVE \E i \in DOMAIN t : t[i].request = m.request
      OBVIOUS
    <3>1. PICK i \in 1..n : s[i].request = m.request
      BY <1>2 DEF Lists
    <3>2. t[i] = s[i]
      BY <1>2
    <3>3. i \in DOMAIN t
      BY <1>2
    <3> QED
      BY Zenon, <3>1, <3>2, <3>3
  <2> QED
    BY <2>1, <2>2
<1>9. ASSUME NEW i \in DOMAIN t
      PROVE  /\ t[i].fee = Fees(Of(B, t[i].request))
             /\ \E m \in Logs : /\ FirstIn(m, B) /\ m.request = t[i].request
                                /\ Index(t[i]) = IndexLog(m)
  <2>1. CASE i = n + 1
    BY <1>1, <1>2, <1>4, <1>6, <2>1
  <2>2. CASE i \in 1..n
    <3>1. t[i] = s[i] /\ i \in DOMAIN s
      BY <1>2, <2>2
    <3>2. s[i].fee = Fees(Of(B, s[i].request))
      <4>1. Fees(Of(B, s[i].request)) = Fees(Of(A, s[i].request))
        BY <3>1, OfAdded
      <4> QED
        BY <3>1, <4>1 DEF Lists
    <3>3. \E m \in Logs : /\ FirstIn(m, B) /\ m.request = s[i].request
                          /\ Index(s[i]) = IndexLog(m)
      BY <1>5, <3>1 DEF Lists
    <3> QED
      BY <3>1, <3>2, <3>3
  <2>3. i = n + 1 \/ i \in 1..n
    BY <1>2
  <2> QED
    BY <2>1, <2>2, <2>3
<1> HIDE DEF B
<1>10. Lists(t, B)
  BY <1>7, <1>8, <1>9 DEF Lists
<1> QED
  BY <1>2, <1>10 DEF B

\* The list for a log of a request it has (AddAttestation, Prepend).
LEMMA ListMerged ==
    ASSUME NEW A \in SUBSET Logs, NEW l \in Logs \ A, NEW s \in Seq(Att),
           Lists(s, A), \E i \in DOMAIN s : s[i].request = l.request,
           NEW t, t = [i \in DOMAIN s |-> IF s[i].request = l.request
                                          THEN Merged(s[i], l) ELSE s[i]]
    PROVE  t \in Seq(Att) /\ Lists(t, A \cup {l})
<1> DEFINE B == A \cup {l}
           n == Len(s)
<1>1. n \in Nat /\ DOMAIN s = 1..n /\ DOMAIN t = 1..n
  BY LenProperties
<1>2. \A i \in 1..n : /\ s[i].request = l.request => t[i] = Merged(s[i], l)
                      /\ s[i].request # l.request => t[i] = s[i]
  BY <1>1
<1>3. \A i \in 1..n : t[i] \in Att /\ t[i].request = s[i].request
  BY <1>1, <1>2, AttAt, MergedAtt
<1>4. t \in Seq(Att)
  <2>1. t \in [1..n -> Att]
    BY <1>1, <1>3
  <2> QED
    BY <1>1, <2>1
<1> HIDE DEF n
<1>5. \A i, j \in DOMAIN t : t[i].request = t[j].request => i = j
  BY <1>1, <1>3 DEF Lists
<1>6. \A m \in B : \E i \in DOMAIN t : t[i].request = m.request
  BY <1>1, <1>3 DEF Lists
<1>7. ASSUME NEW i \in DOMAIN t
      PROVE  /\ t[i].fee = Fees(Of(B, t[i].request))
             /\ \E m \in Logs : /\ FirstIn(m, B) /\ m.request = t[i].request
                                /\ Index(t[i]) = IndexLog(m)
  <2>1. PICK k \in Logs : /\ FirstIn(k, A) /\ k.request = s[i].request
                          /\ Index(s[i]) = IndexLog(k)
    BY <1>1 DEF Lists
  <2>2. s[i].fee = Fees(Of(A, s[i].request)) /\ s[i] \in Att
    BY <1>1, AttAt DEF Lists
  <2>3. k \in A /\ k.pos \in Nat /\ l.pos \in Nat
    BY <2>1, LogsAssumption DEF FirstIn
  <2>4. CASE s[i].request # l.request
    <3>1. t[i] = s[i]
      BY <1>1, <1>2, <2>4
    <3>2. Fees(Of(B, s[i].request)) = Fees(Of(A, s[i].request))
      BY <2>4, OfAdded
    <3>3. FirstIn(k, B)
      BY <2>1, <2>4 DEF FirstIn
    <3> QED
      BY <2>1, <2>2, <3>1, <3>2, <3>3
  <2>5. CASE s[i].request = l.request
    <3>1. /\ t[i] = Merged(s[i], l) /\ t[i].request = s[i].request
          /\ t[i].fee = s[i].fee + l.fee
          /\ Index(t[i]) = IF EarlierLog(IndexLog(l), IndexLog(k))
                           THEN IndexLog(l) ELSE IndexLog(k)
      BY <1>1, <1>2, <2>1, <2>2, <2>5, MergedAtt
    <3>2. Fees(Of(B, s[i].request)) = Fees(Of(A, s[i].request)) + l.fee
      BY <2>5, OfAdded
    <3>3. EarlierLog(IndexLog(l), IndexLog(k)) <=> l.pos < k.pos
      BY LogOrder
    <3>4. CASE l.pos < k.pos
      <4>1. FirstIn(l, B)
        BY <2>1, <2>3, <2>5, <3>4, LogsAssumption DEF FirstIn
      <4>2. Index(t[i]) = IndexLog(l)
        BY <3>1, <3>3, <3>4
      <4> QED
        BY <2>2, <2>5, <3>1, <3>2, <4>1, <4>2
    <3>5. CASE ~(l.pos < k.pos)
      <4>1. FirstIn(k, B)
        BY <2>1, <2>3, <2>5, <3>5, LogsAssumption DEF FirstIn
      <4>2. Index(t[i]) = IndexLog(k)
        BY <3>1, <3>3, <3>5
      <4> QED
        BY <2>1, <2>2, <2>5, <3>1, <3>2, <4>1, <4>2
    <3> QED
      BY <3>4, <3>5
  <2> QED
    BY <2>4, <2>5
<1> HIDE DEF B
<1>8. Lists(t, B)
  BY <1>5, <1>6, <1>7 DEF Lists
<1> QED
  BY <1>4, <1>8 DEF B

\* Swapping two neighbours changes nothing but the order (sortAttestations).
LEMMA ListSwapped ==
    ASSUME NEW A \in SUBSET Logs, NEW s \in Seq(Att), Lists(s, A),
           NEW k \in 1..(Len(s) - 1),
           NEW t, t = [[s EXCEPT ![k] = s[k + 1]] EXCEPT ![k + 1] = s[k]]
    PROVE  Lists(t, A)
<1> DEFINE n == Len(s)
           other == [i \in 1..n |-> IF i = k THEN k + 1 ELSE IF i = k + 1 THEN k ELSE i]
<1>1. /\ n \in Nat /\ DOMAIN s = 1..n /\ k \in 1..n /\ k + 1 \in 1..n
  BY LenProperties
<1>2. /\ DOMAIN t = 1..n
      /\ t[k] = s[k + 1] /\ t[k + 1] = s[k]
      /\ \A i \in 1..n : i # k /\ i # k + 1 => t[i] = s[i]
  BY <1>1
<1>3. \A i \in 1..n : other[i] \in 1..n /\ t[i] = s[other[i]] /\ other[other[i]] = i
  BY <1>1, <1>2
<1> HIDE DEF n, other
<1>4. \A i, j \in DOMAIN t : t[i].request = t[j].request => i = j
  <2> SUFFICES ASSUME NEW i \in 1..n, NEW j \in 1..n, t[i].request = t[j].request
               PROVE  i = j
    BY <1>2
  <2>1. other[i] = other[j]
    BY <1>1, <1>3 DEF Lists
  <2> QED
    BY <1>3, <2>1
<1>5. \A m \in A : \E i \in DOMAIN t : t[i].request = m.request
  <2> SUFFICES ASSUME NEW m \in A PROVE \E i \in 1..n : t[i].request = m.request
    BY <1>2
  <2>1. PICK i \in 1..n : s[i].request = m.request
    BY <1>1 DEF Lists
  <2>2. other[i] \in 1..n /\ t[other[i]] = s[i]
    BY <1>3
  <2> QED
    BY <2>1, <2>2
<1>6. \A i \in DOMAIN t : \E j \in DOMAIN s : t[i] = s[j]
  BY <1>1, <1>2, <1>3
<1>7. ASSUME NEW i \in DOMAIN t
      PROVE  /\ t[i].fee = Fees(Of(A, t[i].request))
             /\ \E l \in Logs : /\ FirstIn(l, A) /\ l.request = t[i].request
                                /\ Index(t[i]) = IndexLog(l)
  <2>1. PICK j \in DOMAIN s : t[i] = s[j]
    BY <1>6
  <2>2. /\ s[j].fee = Fees(Of(A, s[j].request))
        /\ \E l \in Logs : /\ FirstIn(l, A) /\ l.request = s[j].request
                           /\ Index(s[j]) = IndexLog(l)
    BY DEF Lists
  <2> QED
    BY <2>1, <2>2
<1> QED
  BY <1>4, <1>5, <1>7 DEF Lists

\* A list without inversions has the requests in the order of their first logs.
LEMMA ListOrder ==
    ASSUME NEW A \in SUBSET Logs, NEW s \in Seq(Att), Lists(s, A),
           \A i \in 1..(Len(s) - 1) : ~EarlierLog(Index(s[i + 1]), Index(s[i]))
    PROVE  ReqsOf(s) \in Seq(Requests) /\ Len(ReqsOf(s)) = Len(s)
           /\ OrderOf(ReqsOf(s), A)
<1> DEFINE n == Len(s)
           First(i, l) == /\ FirstIn(l, A) /\ l.request = s[i].request
                          /\ Index(s[i]) = IndexLog(l)
           f == [i \in 1..n |-> CHOOSE l \in Logs : First(i, l)]
<1>1. n \in Nat /\ DOMAIN s = 1..n /\ DOMAIN ReqsOf(s) = 1..n
  BY LenProperties DEF ReqsOf
<1>2. \A i \in 1..n : s[i].request \in Requests /\ ReqsOf(s)[i] = s[i].request
  BY <1>1, AttAt DEF ReqsOf
<1>3. ReqsOf(s) \in Seq(Requests) /\ Len(ReqsOf(s)) = Len(s)
  <2>1. ReqsOf(s) \in [1..n -> Requests]
    BY <1>1, <1>2 DEF ReqsOf
  <2> QED
    BY <1>1, <2>1
<1>4. \A i \in 1..n : f[i] \in Logs /\ First(i, f[i])
  BY <1>1 DEF Lists
<1> HIDE DEF f, n
<1>5. \A i \in 1..n : f[i].pos \in Nat
  BY <1>4, LogsAssumption
<1>6. \A i \in 1..(n - 1) : f[i].pos < f[i + 1].pos
  <2> SUFFICES ASSUME NEW i \in 1..(n - 1) PROVE f[i].pos < f[i + 1].pos
    OBVIOUS
  <2>1. i \in 1..n /\ i + 1 \in 1..n /\ i # i + 1
    BY <1>1
  <2>2. ~(f[i + 1].pos < f[i].pos)
    <3>1. ~EarlierLog(Index(s[i + 1]), Index(s[i]))
      BY DEF n
    <3> QED
      BY <1>4, <2>1, <3>1, LogOrder
  <2>3. f[i].pos # f[i + 1].pos
    <3> SUFFICES ASSUME f[i].pos = f[i + 1].pos PROVE FALSE
      OBVIOUS
    <3>1. f[i] = f[i + 1]
      BY <1>4, <2>1, LogsAssumption
    <3>2. s[i].request = s[i + 1].request
      BY <1>4, <2>1, <3>1
    <3> QED
      BY <1>1, <2>1, <3>2 DEF Lists
  <2> QED
    BY <1>5, <2>1, <2>2, <2>3
<1>7. ASSUME NEW i \in 1..n, NEW j \in 1..n, i < j
      PROVE  f[i].pos < f[j].pos
  <2> DEFINE D == {k \in 1..n : i < k /\ ~(f[i].pos < f[k].pos)}
  <2> SUFFICES ASSUME D # {} PROVE FALSE
    BY <1>7
  <2>1. PICK k \in D : \A x \in D : k <= x
    <3>1. D \in SUBSET Nat
      OBVIOUS
    <3> QED
      BY <3>1, LeastNumber
  <2>2. k - 1 \in 1..(n - 1) /\ k - 1 \in 1..n /\ k - 1 + 1 = k /\ i <= k - 1
    BY <1>1
  <2>3. f[k - 1].pos < f[k].pos
    BY <1>6, <2>2
  <2>4. k - 1 = i \/ f[i].pos < f[k - 1].pos
    BY <1>1, <2>1, <2>2
  <2>5. f[i].pos \in Nat /\ f[k].pos \in Nat /\ f[k - 1].pos \in Nat
    BY <1>5, <2>2
  <2>6. f[i].pos < f[k].pos
    BY <2>3, <2>4, <2>5
  <2> QED
    BY <2>6
<1>8. OrderOf(ReqsOf(s), A)
  <2>1. \A i \in 1..n : \E l \in Logs : FirstIn(l, A) /\ l.request = ReqsOf(s)[i]
    BY <1>2, <1>4
  <2>2. \A l \in A : \E i \in 1..n : ReqsOf(s)[i] = l.request
    BY <1>1, <1>2 DEF Lists
  <2>3. ASSUME NEW i \in 1..n, NEW j \in 1..n, NEW l \in Logs, NEW m \in Logs, i < j,
               FirstIn(l, A), l.request = ReqsOf(s)[i],
               FirstIn(m, A), m.request = ReqsOf(s)[j]
        PROVE  l.pos < m.pos
    <3>1. l = f[i] /\ m = f[j]
      BY <1>2, <1>4, <2>3, OneFirst
    <3> QED
      BY <1>7, <2>3, <3>1
  <2> QED
    BY <1>1, <2>1, <2>2, <2>3 DEF OrderOf
<1> QED
  BY <1>3, <1>8

-----------------------------------------------------------------------------
(* The invariant holds initially.                                          *)

\* Init implies the invariant.
LEMMA InitInv == Init => Inv
<1> SUFFICES ASSUME Init PROVE Inv
  OBVIOUS
<1>1. TypeInv
  <2>1. <<>> \in Seq(Att)
    BY EmptySeq
  <2> QED
    BY <2>1 DEF Init, TypeInv, NotServing
<1>2. ListInv
  <2> SUFFICES ASSUME NEW c \in Clients
               PROVE  /\ held[c] = <<>> /\ pending[c] = {}
                      /\ Lists(Restored(c), Added(c)) /\ Gapless(Added(c))
    BY DEF ListInv
  <2>1. held[c] = <<>> /\ pending[c] = {} /\ Restored(c) = <<>> /\ fetched[c] = 0
    BY DEF Init, Restored
  <2>2. Added(c) = {}
    BY <2>1, LogsAssumption DEF Added
  <2>3. Lists(<<>>, {}) /\ Gapless({})
    BY DEF Lists, Gapless
  <2> QED
    BY <2>1, <2>2, <2>3
<1>3. SentInv
  <2>1. PICK n \in Noise : messages = {n}
    BY DEF Init
  <2>2. IsFiniteSet(messages) /\ messages \cap Noise = {n} /\ messages \ Noise = {}
    BY <2>1, FS_Singleton
  <2> QED
    BY <2>1, <2>2 DEF SentInv
<1>4. CountInv /\ InputInv /\ ServerInv
  <2>1. /\ todo = {} /\ counted = {} /\ phase = "choose" /\ lock[Counter] = "free"
        /\ server.pc = "idle"
    BY BallotsAssumption DEF Init, NotServing
  <2>2. ~server.settled
    BY Zenon DEF Init, NotServing
  <2>3. CountInv /\ InputInv
    BY <2>1 DEF CountInv, InputInv
  <2>4. ServerInv
    BY <2>1, <2>2, Zenon DEF ServerInv
  <2> QED
    BY <2>3, <2>4
<1> QED
  BY <1>1, <1>2, <1>3, <1>4 DEF Inv

-----------------------------------------------------------------------------
(* Lists: one lemma per action.                                            *)

\* The logs added when no log is pending are closed.
LEMMA AddedGapless ==
    ASSUME NEW c \in Clients, fetched[c] \in Nat, pending[c] = {}
    PROVE  Gapless(Added(c))
<1> SUFFICES ASSUME NEW l \in Added(c), NEW m \in Logs, m.pos <= l.pos
             PROVE  m.block <= fetched[c]
  BY DEF Gapless, Added
<1>1. l \in Logs /\ l.block <= fetched[c] /\ l.block \in Nat /\ m.block \in Nat
      /\ l.pos \in Nat /\ m.pos \in Nat
  BY LogsAssumption DEF Added
<1>2. m = l \/ EarlierLog(m, l)
  BY <1>1, LogsAssumption DEF EarlierLog, ChainOrder
<1>3. m.block <= l.block
  BY <1>1, <1>2 DEF EarlierLog
<1> QED
  BY <1>1, <1>3

\* Query: what is added does not change.
LEMMA QueryLists ==
    ASSUME TypeInv, ListInv, NEW c \in Clients, Query(c)
    PROVE  TypeInv' /\ ListInv'
<1>1. PICK b \in (fetched[c] + 1)..LastBlock :
          /\ fetched' = [fetched EXCEPT ![c] = b]
          /\ pending' = [pending EXCEPT
                ![c] = {l \in Logs : fetched[c] < l.block /\ l.block <= b}]
  BY DEF Query
<1>2. /\ pending[c] = {} /\ UNCHANGED <<ordered, atts, lock, held, phase, server>>
      /\ fetched[c] \in Nat /\ b \in Nat /\ fetched[c] < b
  BY LastBlockIsLast DEF Query, TypeInv, countVars
<1>3. TypeInv'
  BY <1>1, <1>2 DEF TypeInv
<1>4. ASSUME NEW d \in Clients
      PROVE  Added(d)' = Added(d) /\ \A l \in pending'[d] : l.block <= fetched'[d]
  <2>1. CASE d = c
    <3>1. /\ fetched'[d] = b
          /\ pending'[d] = {l \in Logs : fetched[c] < l.block /\ l.block <= b}
      BY <1>1, <2>1 DEF TypeInv
    <3>2. \A l \in Logs : l.block \in Nat
      BY LogsAssumption
    <3> QED
      BY <1>2, <2>1, <3>1, <3>2 DEF Added
  <2>2. CASE d # c
    <3>1. fetched'[d] = fetched[d] /\ pending'[d] = pending[d]
      BY <1>1, <2>2 DEF TypeInv
    <3> QED
      BY <3>1 DEF Added, ListInv
  <2> QED
    BY <2>1, <2>2
<1>5. ASSUME NEW d \in Clients PROVE Restored(d)' = Restored(d)
  BY <1>2 DEF Restored
<1>6. ListInv'
  BY <1>2, <1>4, <1>5 DEF ListInv
<1> QED
  BY <1>3, <1>6

\* AddAttestation: the new list is that of the logs with one more.
LEMMA AddLists ==
    ASSUME TypeInv, ListInv, NEW c \in Clients, NEW l \in Logs, AddAttestation(c, l)
    PROVE  TypeInv' /\ ListInv'
<1> DEFINE s == atts[c]
           A == Added(c)
<1>1. /\ l \in pending[c] /\ lock[c] = "free" /\ held[c] = <<>>
      /\ UNCHANGED <<ordered, fetched, lock, held, phase, server>>
      /\ pending' = [pending EXCEPT ![c] = pending[c] \ {l}]
  BY DEF AddAttestation, ListInv, countVars
<1>2. /\ s \in Seq(Att) /\ A \in SUBSET Logs /\ l \in Logs \ A
      /\ Lists(s, A) /\ l.block <= fetched[c] /\ fetched[c] \in Nat
  <2>1. Restored(c) = s /\ Lists(Restored(c), A) /\ l.block <= fetched[c]
    BY <1>1 DEF Restored, ListInv
  <2> QED
    BY <1>1, <2>1 DEF TypeInv, Added
<1>3. atts'[c] \in Seq(Att) /\ Lists(atts'[c], A \cup {l})
  <2> DEFINE t == atts'[c]
  <2>1. CASE \E i \in DOMAIN s : s[i].request = l.request
    <3>1. t = [i \in DOMAIN s |-> IF s[i].request = l.request
                                  THEN Merged(s[i], l) ELSE s[i]]
      BY <2>1 DEF AddAttestation, TypeInv
    <3> HIDE DEF t, s, A
    <3> QED
      BY <1>2, <2>1, <3>1, ListMerged DEF t
  <2>2. CASE ~\E i \in DOMAIN s : s[i].request = l.request
    <3>1. t = Append(s, [request |-> l.request,
                         indexes |-> <<IndexLog(l)>>, fee |-> l.fee])
      BY <2>2 DEF AddAttestation, TypeInv
    <3>2. \A i \in DOMAIN s : s[i].request # l.request
      BY <2>2
    <3> HIDE DEF t, s, A
    <3> QED
      BY <1>2, <3>1, <3>2, ListAppended DEF t
  <2> QED
    BY <2>1, <2>2
<1>4. /\ DOMAIN atts' = Clients
      /\ \A d \in Clients : d # c => atts'[d] = atts[d]
      /\ atts' = [d \in Clients |-> atts'[d]]
  BY DEF AddAttestation, TypeInv
<1>5. TypeInv'
  <2>1. atts' \in [Clients -> Seq(Att)]
    <3>1. \A d \in Clients : atts'[d] \in Seq(Att)
      BY <1>3, <1>4 DEF TypeInv
    <3> QED
      BY <1>4, <3>1
  <2>2. pending' \in [Clients -> SUBSET Logs]
    BY <1>1 DEF TypeInv
  <2> QED
    BY <1>1, <2>1, <2>2 DEF TypeInv
<1>6. pending'[c] = pending[c] \ {l} /\ \A d \in Clients : d # c => pending'[d] = pending[d]
  BY <1>1 DEF TypeInv
<1>7. Added(c)' = A \cup {l}
  BY <1>1, <1>2, <1>6 DEF Added
<1>8. ordered => Gapless(A \cup {l})
  <2> SUFFICES ASSUME ordered, NEW m \in Logs, m.pos <= l.pos, m # l PROVE m \in A
    BY DEF ListInv, Gapless
  <2>1. m.pos < l.pos /\ EarlierLog(m, l)
    BY LogsAssumption DEF EarlierLog, ChainOrder
  <2>2. m.block <= l.block /\ m.block \in Nat /\ l.block \in Nat
    BY <2>1, LogsAssumption DEF EarlierLog
  <2>3. m \notin pending[c]
    BY <2>1, LogOrder DEF AddAttestation
  <2> QED
    BY <1>2, <2>2, <2>3 DEF Added
<1>9. ASSUME NEW d \in Clients
      PROVE  /\ lock'[d] = "free" => held'[d] = <<>>
             /\ held'[d] # <<>> => held'[d][1].at \in 1..Len(atts'[d])
             /\ \A m \in pending'[d] : m.block <= fetched'[d]
             /\ Lists(Restored(d)', Added(d)')
             /\ ordered' => Gapless(Added(d)')
  <2>1. CASE d = c
    <3>1. Restored(d)' = atts'[c]
      BY <1>1, <2>1 DEF Restored
    <3> QED
      BY <1>1, <1>3, <1>6, <1>7, <1>8, <2>1, <3>1 DEF ListInv
  <2>2. CASE d # c
    <3>1. Restored(d)' = Restored(d) /\ Added(d)' = Added(d)
      BY <1>1, <1>4, <1>6, <2>2 DEF Restored, Added
    <3> QED
      BY <1>1, <1>4, <1>6, <2>2, <3>1 DEF ListInv
  <2> QED
    BY <2>1, <2>2
<1>10. ListInv'
  BY <1>9 DEF ListInv
<1> QED
  BY <1>5, <1>10

\* sortAttestations: the list is a permutation, but for the write to come.
LEMMA SortLists ==
    ASSUME TypeInv, ListInv, NEW c \in Clients, sortAttestations(c)
    PROVE  /\ TypeInv' /\ ListInv'
           /\ \A d \in Clients : Len(atts'[d]) = Len(atts[d])
<1> DEFINE s == atts[c]
<1>1. /\ lock[c] # "free" /\ s \in Seq(Att) /\ Len(s) \in Nat /\ DOMAIN s = 1..Len(s)
      /\ UNCHANGED <<ordered, fetched, pending, lock, phase, server>>
  BY LenProperties DEF sortAttestations, clientVars, countVars, TypeInv
<1>2. \A d \in Clients : Added(d)' = Added(d)
  BY <1>1 DEF Added
<1>3. Lists(Restored(c), Added(c)) /\ Added(c) \in SUBSET Logs
  BY DEF ListInv, Added
<1>4. CASE held[c] = <<>> /\ \E i \in 1..(Len(s) - 1) :
             /\ Inverted(c, i)
             /\ atts' = [atts EXCEPT ![c][i] = s[i + 1]]
             /\ held' = [held EXCEPT ![c] = <<[at |-> i + 1, att |-> s[i]]>>]
  <2>1. PICK i \in 1..(Len(s) - 1) :
             /\ atts' = [atts EXCEPT ![c][i] = s[i + 1]]
             /\ held' = [held EXCEPT ![c] = <<[at |-> i + 1, att |-> s[i]]>>]
    BY <1>4
  <2> DEFINE h == [at |-> i + 1, att |-> s[i]]
             t == [s EXCEPT ![i] = s[i + 1]]
  <2>2. i \in 1..Len(s) /\ i + 1 \in 1..Len(s) /\ i + 1 \in Nat
    BY <1>1
  <2>3. s[i] \in Att /\ s[i + 1] \in Att
    BY <1>1, <2>2, AttAt
  <2>4. h \in [at : Nat, att : Att] /\ h.at = i + 1 /\ h.att = s[i]
    BY <2>2, <2>3
  <2>5. t \in Seq(Att) /\ Len(t) = Len(s)
    BY <1>1, <2>2, <2>3, ExceptSeq
  <2>6. atts' = [atts EXCEPT ![c] = t] /\ held' = [held EXCEPT ![c] = <<h>>]
    BY <2>1 DEF TypeInv
  <2>7. Restored(c) = s /\ Restored(c)' = [t EXCEPT ![i + 1] = s[i]]
    <3>1. held'[c] = <<h>> /\ atts'[c] = t
      BY <2>6 DEF TypeInv
    <3>2. <<h>> # <<>> /\ <<h>>[1] = h
      OBVIOUS
    <3> HIDE DEF h, t
    <3> QED
      BY <1>4, <2>4, <3>1, <3>2 DEF Restored
  <2>8. Lists(Restored(c)', Added(c))
    <3>1. Restored(c)' = [[s EXCEPT ![i] = s[i + 1]] EXCEPT ![i + 1] = s[i]]
      BY <2>7
    <3>2. s \in Seq(Att) /\ Lists(s, Added(c))
      BY <1>1, <1>3, <2>7
    <3> HIDE DEF s
    <3> QED
      BY <1>3, <3>1, <3>2, ListSwapped
  <2> HIDE DEF h, t
  <2>9. TypeInv'
    BY <1>1, <2>4, <2>5, <2>6 DEF TypeInv
  <2>10. ASSUME NEW d \in Clients
         PROVE  /\ lock'[d] = "free" => held'[d] = <<>>
                /\ held'[d] # <<>> => held'[d][1].at \in 1..Len(atts'[d])
                /\ Lists(Restored(d)', Added(d)')
                /\ Len(atts'[d]) = Len(atts[d])
    <3>1. CASE d = c
      <4>1. held'[d] = <<h>> /\ atts'[d] = t /\ <<h>>[1] = h
        BY <2>6, <3>1 DEF TypeInv
      <4> QED
        BY <1>1, <1>2, <2>2, <2>4, <2>5, <2>8, <3>1, <4>1
    <3>2. CASE d # c
      <4>1. held'[d] = held[d] /\ atts'[d] = atts[d]
        BY <2>6, <3>2 DEF TypeInv
      <4>2. Restored(d)' = Restored(d)
        BY <4>1 DEF Restored
      <4> QED
        BY <1>1, <1>2, <4>1, <4>2 DEF ListInv
    <3> QED
      BY <3>1, <3>2
  <2>11. ListInv'
    BY <1>1, <1>2, <2>10 DEF ListInv
  <2> QED
    BY <2>9, <2>10, <2>11
<1>5. CASE /\ held[c] # <<>>
           /\ atts' = [atts EXCEPT ![c][held[c][1].at] = held[c][1].att]
           /\ held' = [held EXCEPT ![c] = <<>>]
  <2> DEFINE k == held[c][1].at
             a == held[c][1].att
             t == [s EXCEPT ![k] = a]
  <2>1. k \in 1..Len(s) /\ a \in Att
    <3>1. PICK h \in [at : Nat, att : Att] : held[c] = <<h>>
      BY <1>5 DEF TypeInv
    <3>2. held[c][1] = h
      BY <3>1
    <3> QED
      BY <1>5, <3>2 DEF ListInv
  <2>2. t \in Seq(Att) /\ Len(t) = Len(s)
    <3> HIDE DEF k, a
    <3> QED
      BY <1>1, <2>1, ExceptSeq
  <2>3. atts' = [atts EXCEPT ![c] = t] /\ held' = [held EXCEPT ![c] = <<>>]
    BY <1>5 DEF TypeInv
  <2>4. Restored(c) = t
    BY <1>5 DEF Restored
  <2> HIDE DEF k, a, t
  <2>5. TypeInv'
    BY <1>1, <2>2, <2>3 DEF TypeInv
  <2>6. ASSUME NEW d \in Clients
        PROVE  /\ lock'[d] = "free" => held'[d] = <<>>
               /\ held'[d] # <<>> => held'[d][1].at \in 1..Len(atts'[d])
               /\ Lists(Restored(d)', Added(d)')
               /\ Len(atts'[d]) = Len(atts[d])
    <3>1. CASE d = c
      <4>1. held'[d] = <<>> /\ atts'[d] = t
        BY <2>3, <3>1 DEF TypeInv
      <4>2. Restored(d)' = t
        BY <4>1 DEF Restored
      <4> QED
        BY <1>2, <1>3, <2>2, <2>4, <3>1, <4>1, <4>2
    <3>2. CASE d # c
      <4>1. held'[d] = held[d] /\ atts'[d] = atts[d]
        BY <2>3, <3>2 DEF TypeInv
      <4>2. Restored(d)' = Restored(d)
        BY <4>1 DEF Restored
      <4> QED
        BY <1>1, <1>2, <4>1, <4>2 DEF ListInv
    <3> QED
      BY <3>1, <3>2
  <2>7. ListInv'
    BY <1>1, <1>2, <2>6 DEF ListInv
  <2> QED
    BY <2>5, <2>6, <2>7
<1> QED
  BY <1>4, <1>5 DEF sortAttestations

\* The list of a client that holds no write, sorted.
LEMMA SortedList ==
    ASSUME TypeInv, ListInv, NEW c \in Clients, Sorted(c)
    PROVE  /\ Restored(c) = atts[c] /\ held[c] = <<>>
           /\ ReqsOf(atts[c]) \in Seq(Requests)
           /\ Len(ReqsOf(atts[c])) = Len(atts[c])
           /\ OrderOf(ReqsOf(atts[c]), Added(c))
<1> DEFINE s == atts[c]
           A == Added(c)
<1>1. held[c] = <<>> /\ Restored(c) = s
  BY DEF Sorted, Restored
<1>2. \A i \in 1..(Len(s) - 1) : ~EarlierLog(Index(s[i + 1]), Index(s[i]))
  BY DEF Sorted, Inverted
<1>3. s \in Seq(Att) /\ A \in SUBSET Logs /\ Lists(s, A)
  BY <1>1 DEF TypeInv, ListInv, Added
<1> HIDE DEF s, A
<1>4. ReqsOf(s) \in Seq(Requests) /\ Len(ReqsOf(s)) = Len(s) /\ OrderOf(ReqsOf(s), A)
  BY <1>2, <1>3, ListOrder
<1> QED
  BY <1>1, <1>4 DEF s, A

\* The actions that only lock or unlock a list, change the phase or serve.
LEMMA LockLists ==
    ASSUME TypeInv, ListInv,
           UNCHANGED <<ordered, fetched, pending, atts, held>>,
           NEW c \in Clients, NEW x \in {"free", "vote", "consensus"},
           lock' = [lock EXCEPT ![c] = x],
           x = "free" => held[c] = <<>>,
           TypeInv'
    PROVE  ListInv'
<1>1. \A d \in Clients : Added(d)' = Added(d) /\ Restored(d)' = Restored(d)
  BY DEF Added, Restored
<1>2. lock'[c] = x /\ \A d \in Clients : d # c => lock'[d] = lock[d]
  BY DEF TypeInv
<1> QED
  BY <1>1, <1>2 DEF ListInv

\* Every step keeps the lists.
LEMMA NextLists ==
    ASSUME TypeInv, ListInv, [Next]_vars
    PROVE  TypeInv' /\ ListInv'
<1> USE BallotsAssumption
<1>1. CASE UNCHANGED <<ordered, fetched, pending, atts, lock, held>> /\ TypeInv'
  <2>1. \A d \in Clients : Added(d)' = Added(d) /\ Restored(d)' = Restored(d)
    BY <1>1 DEF Added, Restored
  <2> QED
    BY <1>1, <2>1 DEF ListInv
<1>2. ASSUME NEW c \in Clients, ClientNext(c) PROVE TypeInv' /\ ListInv'
  <2>1. CASE Query(c)
    BY <2>1, QueryLists
  <2>2. CASE \E l \in Logs : AddAttestation(c, l)
    BY <2>2, AddLists
  <2>3. CASE sortAttestations(c)
    BY <2>3, SortLists
  <2>4. CASE BitVote(c)
    <3>1. /\ UNCHANGED <<ordered, fetched, pending, atts, held, phase, server>>
          /\ lock' = [lock EXCEPT ![c] = "vote"]
      BY <2>4 DEF BitVote, clientVars, countVars
    <3>2. TypeInv'
      BY <3>1 DEF TypeInv
    <3> QED
      BY <3>1, <3>2, LockLists
  <2>5. CASE \E S \in SUBSET Requests : BitVoteBytes(c, S)
    <3>1. /\ UNCHANGED <<ordered, fetched, pending, atts, held, phase, server>>
          /\ lock' = [lock EXCEPT ![c] = "free"] /\ held[c] = <<>>
      BY <2>5 DEF BitVoteBytes, clientVars, countVars, Sorted
    <3>2. TypeInv'
      BY <3>1 DEF TypeInv
    <3> QED
      BY <3>1, <3>2, LockLists
  <2> QED
    BY <1>2, <2>1, <2>2, <2>3, <2>4, <2>5 DEF ClientNext
<1>3. CASE OnBitVotes
  <2>1. TypeInv'
    BY <1>3 DEF OnBitVotes, clientVars, TypeInv
  <2> QED
    BY <1>1, <1>3, <2>1 DEF OnBitVotes, clientVars
<1>4. CASE \E m \in messages : ProcessBitVote(m)
  <2>1. UNCHANGED <<ordered, fetched, pending, atts, lock, held, phase, server>>
    BY <1>4 DEF ProcessBitVote, clientVars
  <2>2. TypeInv'
    BY <2>1 DEF TypeInv
  <2> QED
    BY <1>1, <2>1, <2>2
<1>5. CASE ComputeConsensusBitVote
  <2>1. /\ UNCHANGED <<ordered, fetched, pending, atts, held, phase, server>>
        /\ lock' = [lock EXCEPT ![Counter] = "consensus"]
    BY <1>5 DEF ComputeConsensusBitVote, clientVars, countVars
  <2>2. TypeInv'
    BY <2>1 DEF TypeInv
  <2> QED
    BY <2>1, <2>2, LockLists
<1>6. CASE ConsensusInput
  <2>1. /\ UNCHANGED <<ordered, fetched, pending, atts, held, server>>
        /\ lock' = [lock EXCEPT ![Counter] = "free"] /\ held[Counter] = <<>>
        /\ phase' = "done"
    BY <1>6 DEF ConsensusInput, clientVars, Sorted
  <2>2. TypeInv'
    BY <2>1 DEF TypeInv
  <2> QED
    BY <2>1, <2>2, LockLists
<1>7. CASE \/ GetRequests \/ GetRequestsRange \/ AttestationToDARequest
           \/ GetRequestsReturns
  <2>1. UNCHANGED <<ordered, fetched, pending, atts, lock, held, phase>>
    BY <1>7 DEF GetRequests, GetRequestsRange, AttestationToDARequest,
                GetRequestsReturns, clientVars, countVars
  <2>2. /\ DOMAIN server' = DOMAIN server
        /\ server'.pc \in {"idle", "made", "read"}
    <3>1. CASE GetRequests
      BY <3>1 DEF GetRequests, TypeInv
    <3>2. CASE GetRequestsRange
      BY <3>2 DEF GetRequestsRange, TypeInv
    <3>3. CASE AttestationToDARequest
      BY <3>3 DEF AttestationToDARequest, TypeInv
    <3>4. CASE GetRequestsReturns
      BY <3>4 DEF GetRequestsReturns, TypeInv
    <3> QED
      BY <1>7, <3>1, <3>2, <3>3, <3>4
  <2>3. TypeInv'
    BY <2>1, <2>2 DEF TypeInv
  <2> QED
    BY <1>1, <2>1, <2>3
<1>8. CASE UNCHANGED vars
  <2>1. UNCHANGED <<ordered, fetched, pending, atts, lock, held, phase, server>>
    BY <1>8 DEF vars, clientVars, countVars
  <2>2. TypeInv'
    BY <2>1 DEF TypeInv
  <2> QED
    BY <1>1, <2>1, <2>2
<1> QED
  BY <1>2, <1>3, <1>4, <1>5, <1>6, <1>7, <1>8 DEF Next

-----------------------------------------------------------------------------
(* The bitVotes on the chain.                                              *)

\* A voter's list is the order of the requests of a closed set of logs.
LEMMA VoteOrder ==
    ASSUME TypeInv, ListInv, NEW c \in Clients, Sorted(c), Gapless(Added(c))
    PROVE  Order(ReqsOf(atts[c]))
<1>1. OrderOf(ReqsOf(atts[c]), Added(c)) /\ Added(c) \in SUBSET Logs
  BY SortedList DEF Added
<1> QED
  BY <1>1 DEF Order

\* What a message encodes does not change, and without a new one nothing does.
LEMMA EncodesStays ==
    ASSUME ordered' = ordered
    PROVE  /\ \A m : Encodes(m)' <=> Encodes(m)
           /\ SentInv /\ messages' = messages => SentInv'
<1>1. \A m : Encodes(m)' <=> Encodes(m)
  BY DEF Encodes
<1> QED
  BY <1>1 DEF SentInv

\* BitVoteBytes: a new message takes the next transaction.
LEMMA BytesSent ==
    ASSUME TypeInv, ListInv, SentInv, NEW c \in Clients, NEW S \in SUBSET Requests,
           BitVoteBytes(c, S)
    PROVE  SentInv'
<1> DEFINE M == messages \ Noise
           sent == Cardinality(M)
           s == ReqsOf(atts[c])
           bits == {i \in DOMAIN atts[c] : atts[c][i].request \in S}
           new == [pos |-> TxIndexes[sent + 1].pos, from |-> c,
                   tx |-> TxIndexes[sent + 1].tx, meant |-> S,
                   gapless |-> Gapless(Added(c)),
                   payload |-> EncodeBitVote([length |-> Len(atts[c]),
                                              bitVector |-> FromBits(bits)])]
<1>0. ordered' = ordered
  BY DEF BitVoteBytes
<1>1. CASE messages' = messages
  BY <1>0, <1>1, EncodesStays
<1>2. CASE sent < Len(TxIndexes) /\ messages' = messages \cup {new}
  <2>1. /\ s \in Seq(Requests) /\ Len(s) = Len(atts[c]) /\ Len(s) <= MaxUint16
        /\ (ordered \/ Gapless(Added(c)) => Order(s))
    <3>1. Sorted(c) /\ Len(atts[c]) <= MaxUint16
      BY DEF BitVoteBytes
    <3>2. ordered => Gapless(Added(c))
      BY DEF ListInv
    <3> QED
      BY <3>1, <3>2, SortedList, VoteOrder
  <2>2. bits = {i \in DOMAIN s : s[i] \in S}
    BY DEF ReqsOf
  <2>3. \A r \in S : \E i \in DOMAIN s : s[i] = r
    BY DEF BitVoteBytes, ReqsOf
  <2>4. /\ IsFiniteSet(M) /\ sent \in Nat /\ sent + 1 \in 1..Len(TxIndexes)
        /\ DOMAIN TxIndexes = 1..Len(TxIndexes) /\ Len(TxIndexes) \in Nat
    <3>1. IsFiniteSet(M)
      BY FS_Difference DEF SentInv
    <3>2. Len(TxIndexes) \in Nat /\ DOMAIN TxIndexes = 1..Len(TxIndexes)
      BY TxIndexesAssumption, LenProperties
    <3> HIDE DEF M
    <3>3. sent \in Nat
      BY <3>1, FS_CardinalityType
    <3> QED
      BY <1>2, <3>1, <3>2, <3>3
  <2> HIDE DEF s, bits, sent
  <2>5. /\ new.pos = TxIndexes[sent + 1].pos /\ new.tx = TxIndexes[sent + 1].tx
        /\ new.meant = S /\ new.gapless = Gapless(Added(c))
        /\ new.payload = EncodeBitVote([length |-> Len(s),
                             bitVector |-> FromBits({i \in DOMAIN s : s[i] \in new.meant})])
    BY <2>1, <2>2
  <2> HIDE DEF new
  <2>6. new \notin Noise
    BY <2>4, <2>5, TxIndexesAssumption
  <2>7. ASSUME NEW m \in messages PROVE m.pos # new.pos
    <3>1. CASE m \in Noise
      BY <2>4, <2>5, <3>1, TxIndexesAssumption
    <3>2. CASE m \notin Noise
      <4>1. PICK i \in 1..sent : i <= Len(TxIndexes) /\ m.pos = TxIndexes[i].pos
        BY <2>7, <3>2 DEF SentInv, sent
      <4>2. i \in DOMAIN TxIndexes /\ sent + 1 \in DOMAIN TxIndexes /\ i # sent + 1
        BY <2>4, <4>1
      <4> QED
        BY <2>5, <4>1, <4>2, TxIndexesAssumption
    <3> QED
      BY <3>1, <3>2
  <2>8. messages' \ Noise = M \cup {new} /\ messages' \cap Noise = messages \cap Noise
    BY <1>2, <2>6
  <2>9. Cardinality(messages' \ Noise) = sent + 1
    <3>1. new \notin M
      BY <2>7
    <3> HIDE DEF M
    <3>2. Cardinality(M \cup {new}) = Cardinality(M) + 1
      BY <2>4, <3>1, FS_AddElement
    <3> QED
      BY <2>8, <3>2 DEF sent
  <2>10. IsFiniteSet(messages')
    BY <1>2, FS_AddElement DEF SentInv
  <2>11. \E n \in Noise : messages' \cap Noise = {n}
    BY <2>8 DEF SentInv
  <2>12. ASSUME NEW m \in messages' \ Noise
         PROVE  \E i \in 1..Cardinality(messages' \ Noise) :
                   /\ i <= Len(TxIndexes)
                   /\ m.pos = TxIndexes[i].pos /\ m.tx = TxIndexes[i].tx
    <3>1. CASE m = new
      <4>1. sent + 1 \in 1..(sent + 1) /\ sent + 1 <= Len(TxIndexes)
        BY <2>4
      <4> QED
        BY <2>5, <2>9, <3>1, <4>1
    <3>2. CASE m \in M
      <4>1. PICK i \in 1..sent : /\ i <= Len(TxIndexes)
                                 /\ m.pos = TxIndexes[i].pos /\ m.tx = TxIndexes[i].tx
        BY <3>2 DEF SentInv, sent
      <4>2. i \in 1..(sent + 1)
        BY <2>4
      <4> QED
        BY <2>9, <4>1, <4>2
    <3> QED
      BY <2>8, <3>1, <3>2
  <2>13. \A m, n \in messages' : m.pos = n.pos => m = n
    BY <1>2, <2>7 DEF SentInv
  <2>14. ASSUME NEW m \in messages' \ Noise PROVE Encodes(m)
    <3>1. CASE m = new
      <4>1. ordered \/ new.gapless => Order(s)
        BY <2>1, <2>5
      <4>2. Encodes(new)
        BY <2>1, <2>3, <2>5, <4>1 DEF Encodes
      <4> QED
        BY <3>1, <4>2
    <3>2. CASE m \in M
      BY <3>2 DEF SentInv
    <3> QED
      BY <2>8, <3>1, <3>2
  <2>15. ASSUME NEW m \in messages' \ Noise PROVE Encodes(m)'
    BY <1>0, <2>14, <2>15, EncodesStays
  <2> QED
    BY <2>10, <2>11, <2>12, <2>13, <2>15 DEF SentInv
<1> QED
  BY <1>1, <1>2 DEF BitVoteBytes

\* No other action sends a message, and none after the choose phase.
LEMMA NextSent ==
    ASSUME TypeInv, ListInv, SentInv, [Next]_vars
    PROVE  SentInv' /\ messages \subseteq messages'
           /\ (phase # "choose" => messages' = messages)
<1>1. ASSUME NEW c \in Clients, NEW S \in SUBSET Requests, BitVoteBytes(c, S)
      PROVE  SentInv' /\ messages \subseteq messages'
             /\ (phase # "choose" => messages' = messages)
  <2>1. messages \subseteq messages' /\ (phase # "choose" => messages' = messages)
    BY <1>1 DEF BitVoteBytes
  <2> QED
    BY <1>1, <2>1, BytesSent
<1>0. ordered' = ordered
  BY DEF Next, vars, ClientNext, Query, AddAttestation, sortAttestations, BitVote,
         BitVoteBytes, OnBitVotes, ProcessBitVote, ComputeConsensusBitVote,
         ConsensusInput, GetRequests, GetRequestsRange, AttestationToDARequest,
         GetRequestsReturns
<1>2. CASE messages' = messages
  BY <1>0, <1>2, EncodesStays
<1>3. ASSUME NEW c \in Clients, ClientNext(c), messages' # messages
      PROVE  \E S \in SUBSET Requests : BitVoteBytes(c, S)
  BY <1>3 DEF ClientNext, Query, AddAttestation, sortAttestations, BitVote
<1>4. CASE UNCHANGED vars
  BY <1>2, <1>4 DEF vars
<1>5. CASE \/ OnBitVotes \/ \E m \in messages : ProcessBitVote(m)
           \/ ComputeConsensusBitVote \/ ConsensusInput
  BY <1>2, <1>5 DEF OnBitVotes, ProcessBitVote, ComputeConsensusBitVote, ConsensusInput
<1>6. CASE \/ GetRequests \/ GetRequestsRange \/ AttestationToDARequest
           \/ GetRequestsReturns
  BY <1>2, <1>6 DEF GetRequests, GetRequestsRange, AttestationToDARequest,
                    GetRequestsReturns
<1>7. CASE \E c \in Clients : ClientNext(c)
  BY <1>1, <1>2, <1>3, <1>7
<1> QED
  BY <1>4, <1>5, <1>6, <1>7 DEF Next

\* Two messages are ordered by their transactions.
LEMMA MessageOrder ==
    ASSUME SentInv, NEW m \in messages, NEW n \in messages
    PROVE  /\ m.pos \in Nat /\ n.pos \in Nat
           /\ m.pos < n.pos <=> EarlierTx(m.tx, n.tx)
<1>1. PICK k \in Noise : messages \cap Noise = {k}
  BY DEF SentInv
<1> DEFINE all == {TxIndexes[i] : i \in DOMAIN TxIndexes} \cup {k}
<1>2. ASSUME NEW x \in messages
      PROVE  \E p \in all : p.pos \in Nat /\ x.pos = p.pos /\ x.tx = p.tx
  <2>1. CASE x \in Noise
    BY <1>1, <2>1, TxIndexesAssumption
  <2>2. CASE x \notin Noise
    <3>1. Len(TxIndexes) \in Nat /\ DOMAIN TxIndexes = 1..Len(TxIndexes)
          /\ IsFiniteSet(messages \ Noise)
      BY TxIndexesAssumption, LenProperties, FS_Difference DEF SentInv
    <3>2. Cardinality(messages \ Noise) \in Nat
      BY <3>1, FS_CardinalityType
    <3>3. PICK i \in 1..Cardinality(messages \ Noise) :
              i <= Len(TxIndexes) /\ x.pos = TxIndexes[i].pos /\ x.tx = TxIndexes[i].tx
      BY <2>2 DEF SentInv
    <3>4. i \in DOMAIN TxIndexes
      BY <3>1, <3>2, <3>3
    <3>5. TxIndexes[i] \in all /\ TxIndexes[i].pos \in Nat
      <4>1. TxIndexes[i] \in [pos : Nat, tx : [block : Nat, txIndex : Nat]]
        BY <3>1, <3>4, ElementOfSeq, TxIndexesAssumption
      <4> QED
        BY <3>4, <4>1
    <3> QED
      BY <3>3, <3>5
  <2> QED
    BY <2>1, <2>2
<1>3. \A p, q \in all : p.pos < q.pos <=> EarlierTx(p.tx, q.tx)
  BY TxIndexesAssumption DEF ChainOrder, EarlierTx
<1> HIDE DEF all
<1>4. PICK p \in all : p.pos \in Nat /\ m.pos = p.pos /\ m.tx = p.tx
  BY <1>2
<1>5. PICK q \in all : q.pos \in Nat /\ n.pos = q.pos /\ n.tx = q.tx
  BY <1>2
<1> QED
  BY <1>3, <1>4, <1>5

-----------------------------------------------------------------------------
(* The count.                                                              *)

\* What the bitVotes counted so far are, for messages M and lists of length n.
CountOf(C, M, n) ==
    /\ \A v \in C : \E m \in M :
          /\ LastUsable(m, M, n)
          /\ v.from = m.from /\ v.tx = m.tx
          /\ v.bitVote \in DecodeBitVoteBytes(m.payload) /\ v.bitVote.length = n
    /\ \A y \in M : Usable(y, n) => \E v \in C : v.from = y.from

\* The second part of CountInv.
LEMMA CountedSoFar ==
    ASSUME CountInv, phase # "choose"
    PROVE  CountOf(counted, messages \ todo, Expected)
BY DEF CountInv, CountOf, LastUsable

\* A bitVote is accepted where the message is usable.
LEMMA AcceptedUsable ==
    ASSUME NEW m
    PROVE  /\ Accepted(m) # {} <=> Usable(m, Len(atts[Counter]))
           /\ \A b \in Accepted(m) : /\ b \in DecodeBitVoteBytes(m.payload)
                                     /\ b.length = Len(atts[Counter])
<1>1. \A b \in DecodeBitVoteBytes(m.payload) : Fits(b.bitVector, b.length)
  BY DEF DecodeBitVoteBytes
<1> QED
  BY <1>1 DEF Accepted, Usable, Voter

\* ProcessBitVote: one more message, in any order.
LEMMA ProcessCount ==
    ASSUME SentInv, CountInv, NEW m \in messages, ProcessBitVote(m)
    PROVE  CountOf(counted', (messages \ todo) \cup {m}, Len(atts[Counter]))
<1> DEFINE n == Len(atts[Counter])
           M == messages \ todo
           before == {v \in counted : v.from = m.from}
           new == {[from |-> m.from, tx |-> m.tx, bitVote |-> b] : b \in Accepted(m)}
<1>1. /\ m \in todo /\ phase = "count"
      /\ counted' = IF \A v \in before : EarlierTx(v.tx, m.tx)
                    THEN (IF new = {} THEN counted ELSE (counted \ before) \cup new)
                    ELSE counted
  BY DEF ProcessBitVote
<1>2. CountOf(counted, M, n) /\ M \subseteq messages
  BY <1>1, CountedSoFar DEF Expected
<1>3. /\ new # {} <=> Usable(m, n)
      /\ \A v \in new : /\ v.from = m.from /\ v.tx = m.tx /\ v.bitVote.length = n
                        /\ v.bitVote \in DecodeBitVoteBytes(m.payload)
  <2>1. new # {} <=> Accepted(m) # {}
    OBVIOUS
  <2>2. Accepted(m) # {} <=> Usable(m, n)
    BY AcceptedUsable
  <2>3. \A b \in Accepted(m) : b \in DecodeBitVoteBytes(m.payload) /\ b.length = n
    BY AcceptedUsable
  <2>4. ASSUME NEW v \in new
        PROVE  /\ v.from = m.from /\ v.tx = m.tx /\ v.bitVote.length = n
               /\ v.bitVote \in DecodeBitVoteBytes(m.payload)
    <3>1. PICK b \in Accepted(m) : v = [from |-> m.from, tx |-> m.tx, bitVote |-> b]
      OBVIOUS
    <3> QED
      BY <2>3, <3>1
  <2> QED
    BY <2>1, <2>2, <2>4
<1>4. \A x, y \in messages : x.pos \in Nat /\ (x.pos < y.pos <=> EarlierTx(x.tx, y.tx))
  BY MessageOrder
<1>5. ASSUME NEW v \in counted
      PROVE  \E k \in M : /\ LastUsable(k, M, n)
                          /\ v.from = k.from /\ v.tx = k.tx
                          /\ v.bitVote \in DecodeBitVoteBytes(k.payload)
                          /\ v.bitVote.length = n
  BY <1>2 DEF CountOf
<1>6. \A y \in M : Usable(y, n) => \E v \in counted : v.from = y.from
  BY <1>2 DEF CountOf
<1> HIDE DEF n, M, before, new
<1>7. CASE ~Usable(m, n)
  <2>1. counted' = counted
    BY <1>1, <1>3, <1>7
  <2>2. \A k : LastUsable(k, M, n) => LastUsable(k, M \cup {m}, n)
    BY <1>7 DEF LastUsable
  <2> QED
    BY <1>5, <1>6, <1>7, <2>1, <2>2 DEF CountOf, n, M
<1>8. CASE Usable(m, n) /\ \A v \in before : EarlierTx(v.tx, m.tx)
  <2>1. counted' = (counted \ before) \cup new /\ new # {}
    BY <1>1, <1>3, <1>8
  <2>2. LastUsable(m, M \cup {m}, n)
    <3> SUFFICES ASSUME NEW y \in M, y.from = m.from, Usable(y, n)
                 PROVE  y.pos <= m.pos
      BY <1>4, <1>8 DEF LastUsable
    <3>1. PICK v \in counted : v.from = y.from
      BY <1>6
    <3>2. PICK k \in M : LastUsable(k, M, n) /\ v.from = k.from /\ v.tx = k.tx
      BY <1>5
    <3>3. y.pos <= k.pos
      BY <3>1, <3>2 DEF LastUsable
    <3>4. EarlierTx(k.tx, m.tx)
      BY <1>8, <3>1, <3>2 DEF before
    <3>5. k.pos < m.pos
      BY <1>2, <1>4, <3>4
    <3> QED
      BY <1>2, <1>4, <3>3, <3>5
  <2>3. ASSUME NEW v \in counted'
        PROVE  \E k \in M \cup {m} :
                  /\ LastUsable(k, M \cup {m}, n)
                  /\ v.from = k.from /\ v.tx = k.tx
                  /\ v.bitVote \in DecodeBitVoteBytes(k.payload) /\ v.bitVote.length = n
    <3>1. CASE v \in new
      BY <1>3, <2>2, <3>1
    <3>2. CASE v \in counted \ before
      <4>1. PICK k \in M : /\ LastUsable(k, M, n)
                           /\ v.from = k.from /\ v.tx = k.tx
                           /\ v.bitVote \in DecodeBitVoteBytes(k.payload)
                           /\ v.bitVote.length = n
        BY <1>5, <3>2
      <4>2. k.from # m.from
        BY <3>2, <4>1 DEF before
      <4>3. LastUsable(k, M \cup {m}, n)
        BY <4>1, <4>2 DEF LastUsable
      <4> QED
        BY <4>1, <4>3
    <3> QED
      BY <2>1, <3>1, <3>2
  <2>4. ASSUME NEW y \in M \cup {m}, Usable(y, n)
        PROVE  \E v \in counted' : v.from = y.from
    <3>1. CASE y.from = m.from
      BY <1>3, <2>1, <3>1
    <3>2. CASE y.from # m.from
      BY <1>6, <2>1, <2>4, <3>2 DEF before
    <3> QED
      BY <3>1, <3>2
  <2> QED
    BY <2>3, <2>4 DEF CountOf, n, M
<1>9. CASE Usable(m, n) /\ ~\A v \in before : EarlierTx(v.tx, m.tx)
  <2>1. counted' = counted
    BY <1>1, <1>9
  <2>2. PICK w \in counted : w.from = m.from /\ ~EarlierTx(w.tx, m.tx)
    BY <1>9 DEF before
  <2>3. PICK h \in M : LastUsable(h, M, n) /\ w.from = h.from /\ w.tx = h.tx
    BY <1>5
  <2>4. m.pos <= h.pos
    BY <1>2, <1>4, <2>2, <2>3
  <2>5. ASSUME NEW k, LastUsable(k, M, n) PROVE LastUsable(k, M \cup {m}, n)
    <3> SUFFICES ASSUME m.from = k.from PROVE m.pos <= k.pos
      BY <2>5 DEF LastUsable
    <3>1. h.pos <= k.pos /\ k \in M
      BY <2>2, <2>3, <2>5 DEF LastUsable
    <3> QED
      BY <1>2, <1>4, <2>4, <3>1
  <2>6. ASSUME NEW v \in counted
        PROVE  \E k \in M \cup {m} :
                  /\ LastUsable(k, M \cup {m}, n)
                  /\ v.from = k.from /\ v.tx = k.tx
                  /\ v.bitVote \in DecodeBitVoteBytes(k.payload) /\ v.bitVote.length = n
    BY <1>5, <2>5
  <2>7. \A y \in M \cup {m} : Usable(y, n) => \E v \in counted : v.from = y.from
    BY <1>6, <2>2
  <2> QED
    BY <2>1, <2>6, <2>7 DEF CountOf, n, M
<1> QED
  BY <1>7, <1>8, <1>9

\* Expected stays as long as the list of the Counter keeps its length.
LEMMA CountKept ==
    ASSUME CountInv, phase \in {"choose", "count", "done"},
           UNCHANGED <<phase, counted, todo, input>>, messages \subseteq messages',
           phase # "choose" => messages' = messages,
           phase = "count" => Len(atts'[Counter]) = Len(atts[Counter])
                              /\ pending'[Counter] = pending[Counter],
           lock'[Counter] = "consensus" => phase = "count" /\ todo = {}
    PROVE  CountInv'
<1>1. CASE phase = "choose"
  BY <1>1 DEF CountInv
<1>2. CASE phase # "choose"
  <2>1. Expected' = Expected
    BY <1>2 DEF Expected
  <2> QED
    BY <1>2, <2>1 DEF CountInv
<1> QED
  BY <1>1, <1>2

\* Every step keeps the count.
LEMMA NextCount ==
    ASSUME TypeInv, ListInv, SentInv, CountInv, [Next]_vars
    PROVE  CountInv'
<1> USE BallotsAssumption
<1>1. /\ phase \in {"choose", "count", "done"} /\ messages \subseteq messages'
      /\ (phase # "choose" => messages' = messages)
      /\ (lock[Counter] = "consensus" => phase = "count" /\ todo = {})
  BY NextSent DEF TypeInv, CountInv
<1>2. ASSUME NEW c \in Clients, phase = "choose" \/ c = Counter, ClientNext(c)
      PROVE  CountInv'
  <2>1. UNCHANGED <<phase, counted, todo, input>>
    BY <1>2 DEF ClientNext, Query, AddAttestation, sortAttestations, BitVote,
                BitVoteBytes, countVars
  <2>2. CASE Query(c)
    <3>1. phase # "count" /\ UNCHANGED lock
      BY <1>2, <2>2 DEF Query
    <3> QED
      BY <1>1, <2>1, <3>1, CountKept
  <2>3. CASE \E l \in Logs : AddAttestation(c, l)
    <3>1. phase # "count" /\ UNCHANGED lock
      BY <1>2, <2>3 DEF AddAttestation, CountInv
    <3> QED
      BY <1>1, <2>1, <3>1, CountKept
  <2>4. CASE sortAttestations(c)
    <3>1. Len(atts'[Counter]) = Len(atts[Counter]) /\ UNCHANGED <<lock, pending>>
      BY <2>4, SortLists DEF sortAttestations, clientVars
    <3> QED
      BY <1>1, <2>1, <3>1, CountKept
  <2>5. CASE BitVote(c)
    <3>1. UNCHANGED <<atts, pending>> /\ lock' = [lock EXCEPT ![c] = "vote"]
      BY <2>5 DEF BitVote, clientVars
    <3>2. lock'[Counter] = "consensus" => lock[Counter] = "consensus"
      BY <3>1 DEF TypeInv
    <3> QED
      BY <1>1, <2>1, <3>1, <3>2, CountKept
  <2>6. CASE \E S \in SUBSET Requests : BitVoteBytes(c, S)
    <3>1. UNCHANGED <<atts, pending>> /\ lock' = [lock EXCEPT ![c] = "free"]
      BY <2>6 DEF BitVoteBytes, clientVars
    <3>2. lock'[Counter] = "consensus" => lock[Counter] = "consensus"
      BY <3>1 DEF TypeInv
    <3> QED
      BY <1>1, <2>1, <3>1, <3>2, CountKept
  <2> QED
    BY <1>2, <2>2, <2>3, <2>4, <2>5, <2>6 DEF ClientNext
<1>3. CASE OnBitVotes
  <2>1. /\ phase = "choose" /\ phase' = "count" /\ todo' = messages
        /\ pending[Counter] = {} /\ UNCHANGED <<messages, counted, lock, pending>>
    BY <1>3 DEF OnBitVotes, clientVars
  <2>2. counted' = {} /\ messages' \ todo' = {} /\ lock'[Counter] # "consensus"
    BY <1>1, <2>1 DEF CountInv
  <2> QED
    BY <2>1, <2>2 DEF CountInv
<1>4. ASSUME NEW m \in messages, ProcessBitVote(m) PROVE CountInv'
  <2>1. /\ phase = "count" /\ phase' = "count" /\ m \in todo /\ todo' = todo \ {m}
        /\ UNCHANGED <<messages, atts, lock, pending>>
    BY <1>4 DEF ProcessBitVote, clientVars
  <2>2. CountOf(counted', (messages \ todo) \cup {m}, Len(atts[Counter]))
    BY <1>4, ProcessCount
  <2>3. messages' \ todo' = (messages \ todo) \cup {m} /\ Expected' = Len(atts[Counter])
    BY <2>1 DEF Expected
  <2>4. CountOf(counted', messages' \ todo', Expected')
    BY <2>2, <2>3
  <2>5. todo' \subseteq messages' /\ pending'[Counter] = {}
        /\ (lock'[Counter] = "consensus" => todo' = {})
    BY <2>1 DEF CountInv
  <2>6. \A x \in messages' \ todo' : x \in messages'
    OBVIOUS
  <2> QED
    BY <2>1, <2>4, <2>5, <2>6 DEF CountInv, CountOf
<1>5. CASE ComputeConsensusBitVote
  <2>1. /\ phase = "count" /\ todo = {}
        /\ UNCHANGED <<phase, counted, todo, input, atts, pending>>
    BY <1>5 DEF ComputeConsensusBitVote, countVars, clientVars
  <2> QED
    BY <1>1, <2>1, CountKept
<1>6. CASE ConsensusInput
  <2> DEFINE s == atts[Counter]
  <2>1. /\ phase = "count" /\ phase' = "done" /\ todo = {}
        /\ UNCHANGED <<messages, todo, counted>>
        /\ lock' = [lock EXCEPT ![Counter] = "free"] /\ Sorted(Counter)
    BY <1>1, <1>6 DEF ConsensusInput
  <2>2. input'.order = ReqsOf(s)
    BY <1>6 DEF ConsensusInput, ReqsOf
  <2>3. Len(ReqsOf(s)) = Len(s)
    BY <2>1, SortedList
  <2>4. Expected' = Expected
    BY <2>1, <2>2, <2>3 DEF Expected
  <2>5. lock'[Counter] = "free"
    BY <2>1 DEF TypeInv
  <2> QED
    BY <2>1, <2>4, <2>5 DEF CountInv
<1>7. CASE \/ GetRequests \/ GetRequestsRange \/ AttestationToDARequest
           \/ GetRequestsReturns \/ UNCHANGED vars
  <2>1. UNCHANGED <<phase, counted, todo, input, atts, pending, lock>>
    BY <1>7 DEF GetRequests, GetRequestsRange, AttestationToDARequest,
                GetRequestsReturns, clientVars, countVars, vars
  <2> QED
    BY <1>1, <2>1, CountKept
<1> QED
  BY <1>2, <1>3, <1>4, <1>5, <1>6, <1>7 DEF Next

-----------------------------------------------------------------------------
(* The consensus and GetRequests.                                          *)

\* ConsensusInput: the list has no inversion, and is closed.
LEMMA ConsensusInputs ==
    ASSUME TypeInv, ListInv, CountInv, ConsensusInput
    PROVE  InputInv' /\ phase = "count"
<1> USE BallotsAssumption
<1> DEFINE c == Counter
           s == atts[Counter]
<1>1. /\ phase = "count" /\ phase' = "done" /\ Sorted(c)
      /\ UNCHANGED <<fetched, pending, atts, held>>
  BY DEF ConsensusInput, clientVars
<1>2. /\ input'.order = ReqsOf(s)
      /\ \A i \in DOMAIN s : input'.fees[i] = s[i].fee
  BY DEF ConsensusInput, ReqsOf
<1>3. input'.complete => AllFetched(Counter)
  BY Zenon DEF ConsensusInput
<1>4. /\ ReqsOf(s) \in Seq(Requests) /\ OrderOf(ReqsOf(s), Added(c))
      /\ Restored(c) = s /\ pending[c] = {} /\ fetched[c] \in Nat
  BY <1>1, SortedList DEF CountInv, TypeInv
<1>5. Order(ReqsOf(s))
  BY <1>1, <1>4, AddedGapless, VoteOrder
<1>6. ASSUME AllFetched(c)
      PROVE  /\ OrderOf(ReqsOf(s), Logs)
             /\ \A i \in DOMAIN ReqsOf(s) :
                   input'.fees[i] = Fees(Of(Logs, ReqsOf(s)[i]))
  <2>1. Added(c) = Logs
    BY <1>6, LastBlockIsLast DEF AllFetched, Added
  <2>2. Lists(s, Logs)
    BY <1>4, <2>1 DEF ListInv
  <2>3. DOMAIN ReqsOf(s) = DOMAIN s /\ \A i \in DOMAIN s : ReqsOf(s)[i] = s[i].request
    BY DEF ReqsOf
  <2> QED
    BY <1>2, <1>4, <2>1, <2>2, <2>3 DEF Lists
<1>7. AllFetched(Counter)' <=> AllFetched(Counter)
  BY <1>1 DEF AllFetched
<1>8. Sorted(Counter)'
  BY <1>1 DEF Sorted, Inverted
<1>9. input'.order \in Seq(Requests) /\ Order(input'.order)
  BY <1>2, <1>4, <1>5
<1>10. input'.order = ReqsOf(atts'[Counter])
  BY <1>1, <1>2
<1>11. ASSUME AllFetched(Counter)
       PROVE  /\ OrderOf(input'.order, Logs)
              /\ \A i \in DOMAIN input'.order :
                    input'.fees[i] = Fees(Of(Logs, input'.order[i]))
  BY <1>2, <1>6, <1>11
<1> QED
  BY <1>1, <1>3, <1>7, <1>8, <1>9, <1>10, <1>11, Zenon DEF InputInv

\* After the consensus of a client with all logs its list stays.
LEMMA SettledStays ==
    ASSUME TypeInv, CountInv, InputInv, phase = "done", input.complete, [Next]_vars
    PROVE  AllFetched(Counter)' /\ Sorted(Counter)' /\ atts'[Counter] = atts[Counter]
<1> USE BallotsAssumption
<1>1. AllFetched(Counter) /\ Sorted(Counter)
  BY DEF InputInv
<1>2. CASE UNCHANGED <<fetched, pending, atts, held>>
  BY <1>1, <1>2 DEF AllFetched, Sorted, Inverted
<1>3. ASSUME ClientNext(Counter) PROVE UNCHANGED <<fetched, pending, atts, held>>
  <2>1. ~Query(Counter)
    BY <1>1, LastBlockIsLast DEF AllFetched, Query
  <2>2. ~\E l \in Logs : AddAttestation(Counter, l)
    BY <1>1 DEF AllFetched, AddAttestation
  <2>3. ~sortAttestations(Counter)
    BY <1>1 DEF Sorted, sortAttestations
  <2> QED
    BY <1>3, <2>1, <2>2, <2>3 DEF ClientNext, BitVote, BitVoteBytes, clientVars
<1>4. CASE \E c \in Clients : (phase = "choose" \/ c = Counter) /\ ClientNext(c)
  BY <1>2, <1>3, <1>4
<1>5. CASE \/ OnBitVotes \/ \E m \in messages : ProcessBitVote(m)
           \/ ComputeConsensusBitVote \/ ConsensusInput
  BY <1>2, <1>5 DEF OnBitVotes, ProcessBitVote, ComputeConsensusBitVote, ConsensusInput
<1>6. CASE \/ GetRequests \/ GetRequestsRange \/ AttestationToDARequest
           \/ GetRequestsReturns \/ UNCHANGED vars
  BY <1>2, <1>6 DEF GetRequests, GetRequestsRange, AttestationToDARequest,
                    GetRequestsReturns, clientVars, vars
<1> QED
  BY <1>4, <1>5, <1>6 DEF Next

\* The phase and the input of the consensus change in few actions.
LEMMA InputSteps ==
    ASSUME [Next]_vars
    PROVE  \/ UNCHANGED <<phase, input>>
           \/ phase = "choose" /\ phase' = "count"
           \/ ConsensusInput
<1>1. CASE \E c \in Clients : ClientNext(c)
  BY <1>1 DEF ClientNext, Query, AddAttestation, sortAttestations, BitVote,
              BitVoteBytes, countVars
<1>2. CASE OnBitVotes \/ \E m \in messages : ProcessBitVote(m)
  BY <1>2 DEF OnBitVotes, ProcessBitVote
<1>3. CASE \/ ComputeConsensusBitVote \/ GetRequests \/ GetRequestsRange
           \/ AttestationToDARequest \/ GetRequestsReturns \/ UNCHANGED vars
  BY <1>3 DEF ComputeConsensusBitVote, GetRequests, GetRequestsRange,
              AttestationToDARequest, GetRequestsReturns, vars, countVars
<1> QED
  BY <1>1, <1>2, <1>3 DEF Next

\* Every step keeps what is known of the input.
LEMMA NextInput ==
    ASSUME TypeInv, ListInv, CountInv, InputInv, [Next]_vars
    PROVE  InputInv'
<1>1. CASE ConsensusInput
  BY <1>1, ConsensusInputs
<1>2. CASE phase' = "count"
  BY <1>2 DEF InputInv
<1>3. CASE UNCHANGED <<phase, input>>
  <2>1. CASE phase = "done" /\ input.complete
    <3>1. AllFetched(Counter)' /\ Sorted(Counter)' /\ atts'[Counter] = atts[Counter]
      BY <2>1, SettledStays
    <3> QED
      BY <1>3, <2>1, <3>1 DEF InputInv
  <2>2. CASE ~(phase = "done" /\ input.complete)
    BY <1>3, <2>2 DEF InputInv
  <2> QED
    BY <2>1, <2>2
<1> QED
  BY <1>1, <1>2, <1>3, InputSteps

\* A call of GetRequests after such a consensus copies the order (GetRequests,
\* AttestationToDARequest).
LEMMA NextServer ==
    ASSUME TypeInv, ListInv, CountInv, InputInv, ServerInv, [Next]_vars
    PROVE  ServerInv'
<1> USE BallotsAssumption
<1> DEFINE n == Len(input.order)
<1>1. CASE UNCHANGED server
  <2>1. CASE UNCHANGED <<phase, input>>
    BY <1>1, <2>1 DEF ServerInv
  <2>2. CASE phase # "done"
    <3>1. ~server.settled
      BY <2>2 DEF ServerInv
    <3> QED
      BY <1>1, <3>1 DEF ServerInv
  <2>3. ConsensusInput => phase # "done"
    BY DEF ConsensusInput
  <2> QED
    BY <2>1, <2>2, <2>3, InputSteps
<1>2. CASE \/ GetRequests \/ GetRequestsRange \/ AttestationToDARequest
           \/ GetRequestsReturns
  <2>1. UNCHANGED <<phase, input>> /\ (server.settled => phase = "done")
    BY <1>2 DEF GetRequests, GetRequestsRange, AttestationToDARequest,
                GetRequestsReturns, countVars, ServerInv
  <2>2. phase = "done" /\ input.complete =>
          /\ Len(atts[Counter]) = n /\ n \in Nat /\ input.order \in Seq(Requests)
          /\ \A i \in 1..n : atts[Counter][i].request = input.order[i]
    <3> SUFFICES ASSUME phase = "done", input.complete
                 PROVE  /\ Len(atts[Counter]) = n /\ n \in Nat
                        /\ input.order \in Seq(Requests)
                        /\ \A i \in 1..n : atts[Counter][i].request = input.order[i]
      OBVIOUS
    <3>1. Sorted(Counter) /\ input.order = ReqsOf(atts[Counter])
      BY DEF InputInv
    <3>2. input.order \in Seq(Requests) /\ Len(atts[Counter]) = n
      BY <3>1, SortedList
    <3>3. n \in Nat /\ DOMAIN input.order = 1..n
      BY <3>2, LenProperties
    <3> QED
      BY <3>1, <3>2, <3>3 DEF ReqsOf
  <2> DEFINE D == {"pc", "calls", "room", "todo", "out", "settled"}
  <2>3. DOMAIN server = D
    BY DEF TypeInv
  <2>4. CASE GetRequests
    <3>1. server' = [server EXCEPT !.pc = "made", !.room = Len(atts[Counter]),
                                   !.out = <<>>, !.settled = Settled]
      BY <2>4 DEF GetRequests
    <3>2. server'.pc = "made" /\ server'.room = Len(atts[Counter]) /\ server'.out = <<>>
      BY <2>3, <3>1
    <3>3. server'.settled = Settled
      BY <2>3, <3>1
    <3>4. server'.settled => phase = "done" /\ input.complete
      BY <3>3, Zenon DEF Settled
    <3> QED
      BY <2>1, <2>2, <3>2, <3>4 DEF ServerInv
  <2>5. CASE GetRequestsRange
    <3>1. /\ server.pc = "made" /\ server'.pc = "read"
          /\ server'.todo = Len(atts[Counter]) /\ server'.room = server.room
          /\ server'.out = server.out /\ server'.settled = server.settled
      BY <2>3, <2>5 DEF GetRequestsRange
    <3> SUFFICES ASSUME server'.settled
                 PROVE  /\ input.complete /\ server'.room = n /\ server'.todo = n
                        /\ \E k \in 0..n : server'.out = SubSeq(input.order, 1, k)
      BY <2>1, <3>1 DEF ServerInv
    <3>2. phase = "done" /\ input.complete /\ server.room = n /\ server.out = <<>>
      BY <3>1 DEF ServerInv
    <3>3. SubSeq(input.order, 1, 0) = <<>> /\ 0 \in 0..n
      BY <2>2, <3>2, SubSeqEmpty
    <3> QED
      BY <2>2, <3>1, <3>2, <3>3
  <2>6. CASE AttestationToDARequest
    <3> DEFINE i == Len(server.out) + 1
    <3>1. CASE i <= server.room
      <4>1. /\ server.pc = "read" /\ Len(server.out) < server.todo
            /\ server' = [server EXCEPT !.out = Append(@, atts[Counter][i].request)]
        BY <2>6, <3>1 DEF AttestationToDARequest
      <4>2. /\ server'.pc = "read" /\ server'.todo = server.todo
            /\ server'.room = server.room /\ server'.settled = server.settled
            /\ server'.out = Append(server.out, atts[Counter][i].request)
        BY <2>3, <4>1
      <4> SUFFICES ASSUME server'.settled
                   PROVE  /\ input.complete /\ server'.room = n /\ server'.todo = n
                          /\ \E k \in 0..n : server'.out = SubSeq(input.order, 1, k)
        BY <2>1, <4>2 DEF ServerInv
      <4>3. phase = "done" /\ input.complete /\ server.room = n /\ server.todo = n
        BY <4>1, <4>2 DEF ServerInv
      <4>4. PICK k \in 0..n : server.out = SubSeq(input.order, 1, k)
        BY <4>1, <4>2 DEF ServerInv
      <4> DEFINE q == input.order
      <4>5. q \in Seq(Requests) /\ n = Len(q) /\ n \in Nat
        BY <2>2, <4>3
      <4> HIDE DEF q
      <4>6. Len(SubSeq(q, 1, k)) = k
        BY <4>5
      <4>7. i = k + 1 /\ k + 1 \in 1..n /\ k + 1 \in 0..n
        BY <4>1, <4>3, <4>4, <4>5, <4>6 DEF q
      <4>8. Append(SubSeq(q, 1, k), q[k + 1]) = SubSeq(q, 1, k + 1)
        BY <4>5, <4>7
      <4>9. server'.out = SubSeq(input.order, 1, k + 1)
        BY <2>2, <4>2, <4>3, <4>4, <4>7, <4>8 DEF q
      <4> QED
        BY <4>2, <4>3, <4>7, <4>9
    <3>2. CASE ~(i <= server.room)
      <4>1. server' = [server EXCEPT !.pc = "idle", !.calls = @ + 1, !.room = 0,
                           !.todo = 0, !.out = <<>>, !.settled = FALSE]
        BY <2>6, <3>2 DEF AttestationToDARequest
      <4>2. server'.pc = "idle"
        BY <2>3, <4>1
      <4>3. server'.settled = FALSE
        BY <2>3, <4>1
      <4> QED
        BY <4>2, <4>3, Zenon DEF ServerInv
    <3> QED
      BY <3>1, <3>2
  <2>7. CASE GetRequestsReturns
    <3>1. /\ server.pc = "read" /\ server'.pc = "idle"
          /\ Len(server.out) = server.todo
          /\ server'.out = server.out /\ server'.settled = server.settled
      BY <2>3, <2>7 DEF GetRequestsReturns
    <3> SUFFICES ASSUME server'.settled
                 PROVE  input.complete /\ server'.out = input.order
      BY <2>1, <3>1 DEF ServerInv
    <3>2. phase = "done" /\ input.complete /\ server.todo = n
      BY <3>1 DEF ServerInv
    <3>3. PICK k \in 0..n : server.out = SubSeq(input.order, 1, k)
      BY <3>1 DEF ServerInv
    <3> DEFINE q == input.order
    <3>4. q \in Seq(Requests) /\ n = Len(q) /\ n \in Nat
      BY <2>2, <3>2
    <3> HIDE DEF q
    <3>5. Len(SubSeq(q, 1, k)) = k /\ SubSeq(q, 1, Len(q)) = q
      BY <3>4, SubSeqFull
    <3> QED
      BY <3>1, <3>2, <3>3, <3>4, <3>5 DEF q
  <2> QED
    BY <1>2, <2>4, <2>5, <2>6, <2>7
<1>3. CASE \/ \E c \in Clients : ClientNext(c)
           \/ OnBitVotes \/ (\E m \in messages : ProcessBitVote(m))
           \/ ComputeConsensusBitVote \/ ConsensusInput \/ UNCHANGED vars
  <2>1. UNCHANGED server
    BY <1>3 DEF ClientNext, Query, AddAttestation, sortAttestations, BitVote,
                BitVoteBytes, OnBitVotes, ProcessBitVote, ComputeConsensusBitVote,
                ConsensusInput, vars
  <2> QED
    BY <1>1, <2>1
<1> QED
  BY <1>2, <1>3 DEF Next

-----------------------------------------------------------------------------
(* Theorems.                                                               *)

\* The invariant: every client's list has the requests of the logs it added;
\* the count is that of the messages processed; what the consensus and
\* GetRequests read is the order of the requests on the chain.
THEOREM BallotsInv == Spec => []Inv
<1>1. Inv /\ [Next]_vars => Inv'
  <2> SUFFICES ASSUME Inv, [Next]_vars PROVE Inv'
    OBVIOUS
  <2>1. TypeInv /\ ListInv /\ SentInv /\ CountInv /\ InputInv /\ ServerInv
    BY DEF Inv
  <2>2. TypeInv' /\ ListInv'
    BY <2>1, NextLists
  <2>3. SentInv'
    BY <2>1, NextSent
  <2>4. CountInv'
    BY <2>1, NextCount
  <2>5. InputInv'
    BY <2>1, NextInput
  <2>6. ServerInv'
    BY <2>1, NextServer
  <2> QED
    BY <2>2, <2>3, <2>4, <2>5, <2>6 DEF Inv
<1> QED
  BY <1>1, InitInv, PTL DEF Spec

\* Of each submit address the last message with a valid bitVote counts, in
\* whatever order the messages are processed (ProcessBitVote).
THEOREM LastVoteProved == Spec => []LastValidVoteCounts
<1>1. Inv => LastValidVoteCounts
  <2> SUFFICES ASSUME Inv, phase = "done" PROVE LastValidVoteCounts
    BY DEF LastValidVoteCounts
  <2> DEFINE n == Len(input.order)
             valid(a) == {m \in messages :
                            /\ m.from = a
                            /\ \E b \in DecodeBitVoteBytes(m.payload) : b.length = n}
             voters == {a \in DOMAIN SubmitToSigning :
                          /\ SubmitToSigning[a] \in DOMAIN VoterWeight
                          /\ VoterWeight[SubmitToSigning[a]] > 0}
             last(a) == {x \in valid(a) : \A y \in valid(a) : y.pos <= x.pos}
             L == {<<v.from, v.tx>> : v \in counted}
             R == UNION {{<<a, m.tx>> : m \in last(a)} : a \in voters}
  <2>1. CountOf(counted, messages, n) /\ SentInv
    <3>1. todo = {} /\ CountInv /\ SentInv /\ Expected = n
      BY DEF Inv, CountInv, Expected
    <3>2. messages \ todo = messages
      BY <3>1
    <3> QED
      BY <3>1, <3>2, CountedSoFar
  <2>2. \A m \in messages : Usable(m, n) <=> m.from \in voters /\ m \in valid(m.from)
    BY DEF Usable, Voter
  <2>3. ASSUME NEW m PROVE LastUsable(m, messages, n) <=>
                              m.from \in voters /\ m \in last(m.from)
    BY <2>2 DEF LastUsable
  <2>4. \A a : \A m \in last(a) : m \in messages /\ m.from = a
    OBVIOUS
  <2> HIDE DEF n, valid, voters, last
  <2>5. ASSUME NEW v \in counted PROVE <<v.from, v.tx>> \in R
    <3>1. PICK m \in messages : LastUsable(m, messages, n) /\ v.from = m.from /\ v.tx = m.tx
      BY <2>1 DEF CountOf
    <3>2. v.from \in voters /\ m \in last(v.from)
      BY <2>3, <3>1
    <3> QED
      BY <3>1, <3>2
  <2>6. ASSUME NEW a \in voters, NEW m \in last(a) PROVE <<a, m.tx>> \in L
    <3>1. m \in messages /\ m.from = a /\ LastUsable(m, messages, n)
      BY <2>3, <2>4, <2>6
    <3>2. PICK v \in counted : v.from = m.from
      BY <2>1, <3>1 DEF CountOf, LastUsable
    <3>3. PICK k \in messages : LastUsable(k, messages, n) /\ v.from = k.from /\ v.tx = k.tx
      BY <2>1 DEF CountOf
    <3>4. k.pos <= m.pos /\ m.pos <= k.pos /\ k.pos \in Nat /\ m.pos \in Nat
      BY <2>1, <3>1, <3>2, <3>3, MessageOrder DEF LastUsable
    <3>5. k = m
      BY <2>1, <3>1, <3>4 DEF SentInv
    <3> QED
      BY <3>1, <3>2, <3>3, <3>5
  <2>7. L = R
    BY <2>5, <2>6
  <2> QED
    BY <2>7 DEF LastValidVoteCounts, n, valid, voters, last
<1> QED
  BY <1>1, BallotsInv, PTL

\* After the consensus of a client that has all logs, GetRequests lists every
\* request once, in order, whatever is sorted meanwhile (GetRequests).
THEOREM GetRequestsProved == Spec => []GetRequestsExact
<1>1. Inv => GetRequestsExact
  BY DEF Inv, ServerInv, GetRequestsExact
<1> QED
  BY <1>1, BallotsInv, PTL

\* A client that has all logs computes the consensus on the requests in the
\* order of their first logs, each with the fees of all its logs, in whatever
\* order it added them (AddAttestation, Prepend, sortAttestations).
THEOREM ConsensusInputProved == Spec => []ConsensusInputCorrect
<1>1. Inv => ConsensusInputCorrect
  <2> SUFFICES ASSUME Inv, phase = "done", input.complete
               PROVE  ConsensusInputCorrect
    BY DEF ConsensusInputCorrect
  <2> DEFINE q == input.order
             n == Len(q)
  <2>1. /\ q \in Seq(Requests) /\ OrderOf(q, Logs)
        /\ \A i \in DOMAIN q : input.fees[i] = Fees(Of(Logs, q[i]))
    BY DEF Inv, InputInv
  <2>2. n \in Nat /\ DOMAIN q = 1..n /\ q \in [1..n -> Requests]
    BY <2>1, LenProperties
  <2>3. \A i \in DOMAIN q : \E l \in Logs : FirstIn(l, Logs) /\ l.request = q[i]
    BY <2>1 DEF OrderOf
  <2>4. ASSUME NEW i \in DOMAIN q, NEW j \in DOMAIN q, q[i] = q[j] PROVE i = j
    <3> SUFFICES ASSUME i < j \/ j < i PROVE FALSE
      BY <2>2
    <3>1. PICK l \in Logs : FirstIn(l, Logs) /\ l.request = q[i]
      BY <2>3
    <3>2. l.pos < l.pos
      BY <2>1, <2>4, <3>1 DEF OrderOf
    <3> QED
      BY <3>2, LogsAssumption
  <2>5. Cardinality(Requests) = n
    <3>1. ASSUME NEW r \in Requests PROVE \E i \in 1..n : q[i] = r
      <4>1. PICK l \in Logs : r = l.request
        BY DEF Requests
      <4> QED
        BY <2>1, <2>2, <4>1 DEF OrderOf
    <3>2. q \in Injection(1..n, Requests)
      BY <2>2, <2>4, Fun_IsInj
    <3>3. q \in Surjection(1..n, Requests)
      BY <2>2, <3>1, Fun_IsSurj
    <3>4. ExistsBijection(1..n, Requests)
      BY <3>2, <3>3, Fun_IsBij DEF ExistsBijection, Bijection
    <3> QED
      BY <2>2, <3>4, FS_CountingElements
  <2>6. ASSUME NEW i \in DOMAIN q
        PROVE  /\ FirstLog(q[i]) \in Logs /\ FirstIn(FirstLog(q[i]), Logs)
               /\ FirstLog(q[i]).request = q[i]
    <3>1. \E l \in Logs : l.request = q[i] /\ \A m \in Logs : m.request = q[i] => l.pos <= m.pos
      BY <2>3 DEF FirstIn
    <3> QED
      BY <3>1 DEF FirstLog, FirstIn
  <2>7. \A i, j \in DOMAIN q : i < j => FirstLog(q[i]).pos < FirstLog(q[j]).pos
    BY <2>1, <2>6 DEF OrderOf
  <2>8. \A i \in DOMAIN q : input.fees[i] =
            MapThenSumSet(LAMBDA l : l.fee, {l \in Logs : l.request = q[i]})
    BY <2>1 DEF Fees, Of
  <2> HIDE DEF FirstLog
  <2> QED
    BY <2>5, <2>7, <2>8 DEF ConsensusInputCorrect
<1> QED
  BY <1>1, BallotsInv, PTL

\* If bitVotes come out of their bytes as they went in, a counted bitVote means
\* the same requests to its voter and to the client that counts it
\* (BitVoteFromAttestations, ProcessBitVote).
THEOREM BitsMeanTheSameProved ==
    ASSUME CodecRoundTrip
    PROVE  Spec => []BitsMeanTheSame
<1>1. Inv => BitsMeanTheSame
  <2> SUFFICES ASSUME Inv, phase = "done", NEW v \in counted, NEW x \in messages \ Noise,
                      x.from = v.from, x.tx = v.tx, ordered \/ x.gapless
               PROVE  {input.order[i] : i \in BitsOf(v.bitVote.bitVector, v.bitVote.length)}
                         = x.meant
    BY DEF BitsMeanTheSame, MeantBy, Sender
  <2> DEFINE q == input.order
  <2>1. q \in Seq(Requests) /\ Order(q) /\ SentInv
    BY DEF Inv, InputInv
  <2>2. PICK m \in messages : /\ v.from = m.from /\ v.tx = m.tx
                              /\ v.bitVote \in DecodeBitVoteBytes(m.payload)
                              /\ v.bitVote.length = Len(q)
    BY DEF Inv, CountInv, Expected
  <2>3. m = x
    <3>1. /\ m.pos \in Nat /\ x.pos \in Nat
          /\ (m.pos < x.pos <=> EarlierTx(m.tx, x.tx))
          /\ (x.pos < m.pos <=> EarlierTx(x.tx, m.tx))
      BY <2>1, MessageOrder
    <3>2. ~(m.pos < x.pos) \/ ~(x.pos < m.pos)
      BY <3>1
    <3>3. m.pos = x.pos
      BY <2>2, <3>1, <3>2
    <3> QED
      BY <2>1, <3>3 DEF SentInv
  <2>4. PICK s \in Seq(Requests) :
          /\ Order(s) /\ Len(s) <= MaxUint16
          /\ \A r \in x.meant : \E i \in DOMAIN s : s[i] = r
          /\ x.payload = EncodeBitVote([length |-> Len(s),
                              bitVector |-> FromBits({i \in DOMAIN s : s[i] \in x.meant})])
    <3>1. Encodes(x)
      BY <2>1 DEF SentInv
    <3> QED
      BY <3>1 DEF Encodes
  <2> DEFINE S == {i \in DOMAIN s : s[i] \in x.meant}
             k == Len(s)
             b == [length |-> k, bitVector |-> FromBits(S)]
  <2>5. k \in Nat /\ DOMAIN s = 1..k /\ S \in SUBSET (1..k) /\ k <= MaxUint16
        /\ MaxUint16 \in Nat
    <3>1. MaxUint16 \in Nat
      BY BallotsAssumption DEF MaxUint16
    <3> QED
      BY <2>4, <3>1, LenProperties
  <2>6. x.payload = EncodeBitVote(b)
    BY <2>4
  <2> HIDE DEF q, S, k
  <2>7. DecodeBitVoteBytes(EncodeBitVote(b)) = {b} /\ BitsOf(FromBits(S), k) = S
    <3>1. k \in 0..MaxUint16
      BY <2>5
    <3> QED
      BY <2>5, <3>1 DEF CodecRoundTrip
  <2>8. v.bitVote = b
    BY <2>2, <2>3, <2>6, <2>7
  <2>9. v.bitVote.length = k /\ v.bitVote.bitVector = FromBits(S)
    BY <2>8
  <2>10. q = s
    <3>1. Len(s) = Len(q)
      BY <2>2, <2>9 DEF k
    <3> QED
      BY <2>1, <2>4, <3>1, OrdersAgree
  <2>11. {s[i] : i \in S} = x.meant
    BY <2>4 DEF S
  <2> QED
    BY <2>7, <2>9, <2>10, <2>11 DEF q
<1> QED
  BY <1>1, BallotsInv, PTL

=============================================================================
