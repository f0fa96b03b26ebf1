------------------------- MODULE VerificationProofs -------------------------
(***************************************************************************)
(* Proofs about Verification, for all requests, configurations, rounds,    *)
(* clients, and answers of the verifiers.                                  *)
(***************************************************************************)
EXTENDS Verification, TimingProofs, SequenceTheorems

-----------------------------------------------------------------------------
(* Answers.                                                                *)

\* Any slot of an answer.
SlotsOf(s, o) == {32 * o, 0, s.type, s.source, s.round, s.lut, s.body}

\* The fields of a struct are all there is to it.
LEMMA StructFields ==
    ASSUME NEW s \in Structs
    PROVE  /\ s = [type |-> s.type, source |-> s.source, round |-> s.round,
                   lut |-> s.lut, body |-> s.body]
           /\ s.type \notin Nat /\ s.source \notin Nat
           /\ s.lut \in Nat /\ s.round \in Nat
BY VerificationAssumption

\* An answer of n slots is a sequence of that length.
LEMMA EncodeLength ==
    ASSUME NEW s \in Structs, NEW o \in Nat, NEW n \in Nat
    PROVE  Len(Encode(s, o, n)) = n /\ DOMAIN Encode(s, o, n) = 1..n
<1> DEFINE r == Encode(s, o, n)
<1>1. \A i \in 1..n : i \in (o + 1)..(o + 5) => Fields(s)[i - o] \in SlotsOf(s, o)
  <2>1. ASSUME NEW i \in 1..n, i \in (o + 1)..(o + 5)
        PROVE  i - o \in {1, 2, 3, 4, 5}
    BY <2>1
  <2>2. \A k \in {1, 2, 3, 4, 5} : Fields(s)[k] \in SlotsOf(s, o)
    BY DEF Fields, SlotsOf
  <2> QED
    BY <2>1, <2>2
<1>2. r \in [1..n -> SlotsOf(s, o)]
  BY <1>1 DEF Encode, SlotsOf
<1> HIDE DEF r
<1>3. r \in Seq(SlotsOf(s, o)) /\ DOMAIN r = 1..n
  BY <1>2, SeqDef
<1> QED
  BY <1>3 DEF r

\* The slots of an answer.
LEMMA EncodeSlots ==
    ASSUME NEW s \in Structs, NEW o \in Nat, NEW n \in Nat
    PROVE  LET r == Encode(s, o, n)
           IN  /\ o > 0 /\ n > 0 => r[1] = 32 * o
               /\ \A i \in 1..n : 1 < i /\ i <= o => r[i] = 0
               /\ n >= o + 5 => /\ r[o + 1] = s.type /\ r[o + 2] = s.source
                                /\ r[o + 3] = s.round /\ r[o + 4] = s.lut
                                /\ r[o + 5] = s.body
<1> DEFINE r == Encode(s, o, n)
<1>1. \A i \in 1..n :
        r[i] = IF i = 1 /\ o > 0 THEN 32 * o
               ELSE IF i \in (o + 1)..(o + 5) THEN Fields(s)[i - o] ELSE 0
  BY DEF Encode
<1> HIDE DEF r
<1>2. o > 0 /\ n > 0 => r[1] = 32 * o
  BY <1>1
<1>3. \A i \in 1..n : 1 < i /\ i <= o => r[i] = 0
  BY <1>1
<1>4. ASSUME n >= o + 5, NEW k \in 1..5 PROVE r[o + k] = Fields(s)[k]
  <2>1. /\ o + k \in 1..n /\ ~(o + k = 1 /\ o > 0)
        /\ o + k \in (o + 1)..(o + 5) /\ (o + k) - o = k
    BY <1>4
  <2> QED
    BY <1>1, <2>1
<1>5. /\ Fields(s)[1] = s.type /\ Fields(s)[2] = s.source /\ Fields(s)[3] = s.round
      /\ Fields(s)[4] = s.lut /\ Fields(s)[5] = s.body
  BY DEF Fields
<1>6. 1 \in 1..5 /\ 2 \in 1..5 /\ 3 \in 1..5 /\ 4 \in 1..5 /\ 5 \in 1..5
  OBVIOUS
<1> QED
  BY <1>2, <1>3, <1>4, <1>5, <1>6, Zenon DEF r

\* The decoder takes an answer exactly if it has all of the struct, and finds
\* the struct wherever it is.
LEMMA Decoded ==
    ASSUME NEW s \in Structs, NEW o \in Nat, NEW n \in Nat, NEW d \in BOOLEAN,
           d <=> o > 0
    PROVE  LET r == Encode(s, o, n)
           IN  /\ CanUnpack(r, d) <=> n >= o + 5
               /\ n >= o + 5 => Unpack(r, d) = s
<1> DEFINE r == Encode(s, o, n)
<1>1. Len(r) = n
  BY EncodeLength
<1>2. n > 0 => Start(r, d) = o
  <2>1. CASE d
    <3>1. n > 0 => r[1] = 32 * o
      BY <2>1, EncodeSlots
    <3> HIDE DEF r
    <3>2. n > 0 => Start(r, d) = (32 * o) \div 32
      BY <2>1, <3>1 DEF Start
    <3>3. (32 * o) \div 32 = o
      OBVIOUS
    <3> QED
      BY <3>2, <3>3
  <2>2. CASE ~d
    BY <2>2 DEF Start
  <2> QED
    BY <2>1, <2>2
<1>3. ASSUME n >= o + 5 PROVE Unpack(r, d) = s
  <2>1. /\ r[o + 1] = s.type /\ r[o + 2] = s.source /\ r[o + 3] = s.round
        /\ r[o + 4] = s.lut /\ r[o + 5] = s.body
    BY <1>3, EncodeSlots
  <2>2. Start(r, d) = o
    BY <1>2, <1>3
  <2> HIDE DEF r
  <2>3. Unpack(r, d) = [type |-> r[o + 1], source |-> r[o + 2], round |-> r[o + 3],
                        lut |-> r[o + 4], body |-> r[o + 5]]
    BY <2>2, Zenon DEF Unpack
  <2> QED
    BY <2>1, <2>3, StructFields, Zenon
<1> HIDE DEF r
<1>4. CanUnpack(r, d) <=> n >= o + 5
  BY <1>1, <1>2 DEF CanUnpack
<1> QED
  BY <1>3, <1>4 DEF r

\* What is packed is unpacked: different structs have different MICs.
LEMMA PackUnpack ==
    ASSUME NEW s \in Structs, NEW d \in BOOLEAN
    PROVE  Unpack(Pack(s, d), d) = s
<1> DEFINE o == StandardOffset(d)
<1>1. o \in Nat /\ (d <=> o > 0) /\ o + 5 \in Nat /\ o + 5 >= o + 5
  BY DEF StandardOffset
<1> HIDE DEF o
<1>2. Unpack(Encode(s, o, o + 5), d) = s
  BY <1>1, Decoded
<1> QED
  BY <1>2 DEF Pack, o

\* Where the LUT and the round of a complete answer are looked for.  At a
\* standard offset they are there; at an offset of two or three slots a name is
\* read as the LUT; at a larger one both are in front of the struct.
LEMMA SlotsRead ==
    ASSUME NEW s \in Structs, NEW o \in Nat, NEW n \in Nat, n >= o + 5
    PROVE  LET r == Encode(s, o, n)
           IN  /\ o = 0 => LUTSlot(r) = 4 /\ RoundSlot(r) = 3 /\ r[4] = s.lut
               /\ o = 1 => LUTSlot(r) = 5 /\ RoundSlot(r) = 4 /\ r[5] = s.lut
               /\ o > 1 => LUTSlot(r) = 4 /\ RoundSlot(r) = 3
               /\ o = 2 \/ o = 3 => r[4] \notin Nat
<1> DEFINE r == Encode(s, o, n)
<1>1. /\ o > 0 => r[1] = 32 * o
      /\ r[o + 1] = s.type /\ r[o + 2] = s.source /\ r[o + 4] = s.lut
  BY EncodeSlots
<1>2. s.type \notin Nat /\ s.source \notin Nat
  BY StructFields
<1> HIDE DEF r
<1>3. o = 0 => IsStaticType(r) /\ r[4] = s.lut
  BY <1>1, <1>2 DEF IsStaticType
<1>4. o = 1 => ~IsStaticType(r) /\ r[5] = s.lut
  BY <1>1 DEF IsStaticType
<1>5. o > 1 => IsStaticType(r)
  BY <1>1 DEF IsStaticType
<1>6. o = 2 \/ o = 3 => r[4] \notin Nat
  BY <1>1, <1>2
<1> QED
  BY <1>3, <1>4, <1>5, <1>6 DEF r, LUTSlot, RoundSlot

\* A complete answer is long enough for every slice that follows.
LEMMA LongEnough ==
    ASSUME NEW s \in Structs, NEW o \in Nat, NEW n \in Nat, n >= o + 5
    PROVE  LET r == Encode(s, o, n)
           IN  ~TooShort(r) /\ ~LUTPanics(r) /\ ~HashFails(r)
<1> DEFINE r == Encode(s, o, n)
<1>1. Len(r) = n
  BY EncodeLength
<1>2. \/ LUTSlot(r) = 4 /\ RoundSlot(r) = 3
      \/ LUTSlot(r) = 5 /\ RoundSlot(r) = 4 /\ n >= 6
  BY SlotsRead
<1> HIDE DEF r
<1>3. ~TooShort(r) /\ ~LUTPanics(r)
  BY <1>1, <1>2 DEF TooShort, LUTPanics
<1>4. ~HashFails(r)
  BY <1>1, <1>2 DEF TooShort, HashFails, AddRoundFails
<1> QED
  BY <1>3, <1>4 DEF r

\* Writing the round into an answer whose LUT was read changes the struct only
\* if it is at its standard offset, and there only the round.
LEMMA RoundWritten ==
    ASSUME NEW s \in Structs, NEW o \in Nat, NEW n \in Nat, NEW d \in BOOLEAN,
           d <=> o > 0, n >= o + 5, ~LUTFails(Encode(s, o, n)), NEW id
    PROVE  Unpack(AddRound(Encode(s, o, n), id), d)
              = [s EXCEPT !.round = IF o = StandardOffset(d) THEN id ELSE @]
<1> DEFINE r == Encode(s, o, n)
           q == AddRound(r, id)
           x == IF o = StandardOffset(d) THEN id ELSE s.round
<1>1. /\ o > 0 => r[1] = 32 * o
      /\ r[o + 1] = s.type /\ r[o + 2] = s.source /\ r[o + 3] = s.round
      /\ r[o + 4] = s.lut /\ r[o + 5] = s.body
  BY EncodeSlots
<1>2. DOMAIN r = 1..n
  BY EncodeLength
<1>3. o = 0 \/ o = 1 \/ o > 3
  <2>1. r[LUTSlot(r)] \in Nat
    BY VerificationAssumption DEF LUTFails
  <2> QED
    BY <2>1, SlotsRead
<1>4. RoundSlot(r) = IF o = 1 THEN 4 ELSE 3
  BY SlotsRead
<1>5. q = [r EXCEPT ![RoundSlot(r)] = id]
  BY DEF AddRound
<1>6. x = IF o = 0 \/ o = 1 THEN id ELSE s.round
  BY DEF StandardOffset
<1> HIDE DEF r, q, x
<1>7. /\ o > 0 => q[1] = 32 * o
      /\ q[o + 1] = s.type /\ q[o + 2] = s.source /\ q[o + 3] = x
      /\ q[o + 4] = s.lut /\ q[o + 5] = s.body
  BY <1>1, <1>2, <1>3, <1>4, <1>5, <1>6
<1>8. Start(q, d) = o
  <2>1. (32 * o) \div 32 = o
    OBVIOUS
  <2> QED
    BY <1>7, <2>1 DEF Start
<1>9. Unpack(q, d) = [type |-> q[o + 1], source |-> q[o + 2], round |-> q[o + 3],
                      lut |-> q[o + 4], body |-> q[o + 5]]
  BY <1>8, Zenon DEF Unpack
<1>10. Unpack(q, d) = [type |-> s.type, source |-> s.source, round |-> x,
                       lut |-> s.lut, body |-> s.body]
  BY <1>7, <1>9, Zenon
<1>11. [s EXCEPT !.round = x]
         = [type |-> s.type, source |-> s.source, round |-> x,
            lut |-> s.lut, body |-> s.body]
  BY StructFields
<1> QED
  BY <1>10, <1>11 DEF q, r, x

\* Two answers with the struct at different places, or of different lengths,
\* differ outside of the slot that the round is written into.
LEMMA EncodingsDiffer ==
    ASSUME NEW s \in Structs, NEW o \in Nat, NEW n \in Nat, n >= o + 5,
           NEW p \in Nat, NEW m \in Nat, m >= p + 5, o > 0 <=> p > 0, NEW id,
           AddRound(Encode(s, o, n), id) = AddRound(Encode(s, p, m), id)
    PROVE  o = p /\ n = m
<1> DEFINE r == Encode(s, o, n)
           q == Encode(s, p, m)
<1>1. DOMAIN r = 1..n /\ DOMAIN q = 1..m
  BY EncodeLength
<1>2. /\ o > 0 => r[1] = 32 * o
      /\ p > 0 => q[1] = 32 * p
  <2>1. n > 0 /\ m > 0
    OBVIOUS
  <2>2. o > 0 => r[1] = 32 * o
    BY <2>1, EncodeSlots, Zenon
  <2>3. p > 0 => q[1] = 32 * p
    BY <2>1, EncodeSlots, Zenon
  <2> QED
    BY <2>2, <2>3
<1>3. RoundSlot(r) \in {3, 4} /\ RoundSlot(q) \in {3, 4}
  BY DEF RoundSlot
<1>4. [r EXCEPT ![RoundSlot(r)] = id] = [q EXCEPT ![RoundSlot(q)] = id]
  BY DEF AddRound
<1> HIDE DEF r, q
<1>5. 1..n = 1..m
  BY <1>1, <1>4
<1>6. n = m
  <2>1. n \in 1..n /\ m \in 1..m
    OBVIOUS
  <2> QED
    BY <1>5, <2>1
<1>7. r[1] = q[1]
  <2>1. /\ [r EXCEPT ![RoundSlot(r)] = id][1] = r[1]
        /\ [q EXCEPT ![RoundSlot(q)] = id][1] = q[1]
    BY <1>1, <1>3
  <2> QED
    BY <1>4, <2>1
<1> QED
  BY <1>2, <1>6, <1>7

-----------------------------------------------------------------------------
(* The verdict.                                                            *)

\* The answer has all of the struct that the MIC was made of.
Complete(s, o, n, d) == n >= o + 5 /\ Pack(s, d) = MIC(request)

\* Its LUT is recent.
Recent(s, limit) == s.lut + limit > ChooseStartTS(roundID)

\* What validateResponse assigns: a leaf, the response of a request that is too
\* old, or the response of one that is refused.
Outcome(s, o, n, a, v) ==
    LET r == Encode(s, o, n)
    IN  \/ /\ Complete(s, o, n, a.abi) /\ ~LUTFails(r)
           /\ v = [status |-> "Success", response |-> AddRound(r, roundID),
                   hash |-> AddRound(r, roundID)]
        \/ /\ Complete(s, o, n, a.abi)
           /\ v = [status |-> "InvalidLUT", response |-> r]
        \/ v = [status |-> "ProcessError", response |-> r]
        \/ v = [status |-> "WrongMIC", response |-> r]

\* When it assigns what, for a struct at its standard offset.
Judged(s, o, n, a, v) ==
    LET valid == Complete(s, o, n, a.abi) /\ s.lut <= MaxUint64
    IN  /\ v.status = "Success" <=> valid /\ Recent(s, a.lutLimit)
        /\ v.status = "InvalidLUT" <=> valid /\ ~Recent(s, a.lutLimit)

\* validateResponse has no other outcome.
LEMMA Verdict ==
    ASSUME NEW s \in Structs, NEW o \in Nat, NEW n \in Nat, NEW a,
           a.abi \in BOOLEAN, a.lutLimit \in Nat, a.abi <=> o > 0,
           ~TooShort(request), roundID \in Nat
    PROVE  LET v == validateResponse(a, Encode(s, o, n))
           IN  /\ Outcome(s, o, n, a, v)
               /\ o = StandardOffset(a.abi) => Judged(s, o, n, a, v)
<1> DEFINE d == a.abi
           r == Encode(s, o, n)
           v == validateResponse(a, r)
<1>0. r = Encode(s, o, n) /\ v = validateResponse(a, r) /\ d = a.abi
      /\ d \in BOOLEAN /\ (d <=> o > 0)
  BY Zenon
<1>1. (CanUnpack(r, d) <=> n >= o + 5) /\ (n >= o + 5 => Unpack(r, d) = s)
  <2> HIDE DEF d, r
  <2> QED
    BY <1>0, Decoded DEF r
<1>2. n >= o + 5 => ~TooShort(r) /\ ~LUTPanics(r) /\ ~HashFails(r)
  BY LongEnough
<1>3. n >= o + 5 /\ o = StandardOffset(d) => r[LUTSlot(r)] = s.lut
  <2>1. o = StandardOffset(d) => o = 0 \/ o = 1
    BY DEF StandardOffset
  <2> QED
    BY <2>1, SlotsRead
<1>4. s.lut \in Nat /\ MaxUint64 \in Nat /\ ChooseStartTS(roundID) \in Nat
  BY StructFields, VerificationAssumption, RoundStartType, TimingAssumption
     DEF ChooseStartTS, RoundStartTS
<1> HIDE DEF d, r, v
<1>5. CASE ~(n >= o + 5)
  <2>1. v = [status |-> "ProcessError", response |-> r]
    BY <1>0, <1>1, <1>5, Zenon DEF validateResponse
  <2>2. Outcome(s, o, n, a, v)
    BY <1>0, <2>1, Zenon DEF Outcome
  <2>3. v.status = "ProcessError"
    BY <2>1
  <2>4. Judged(s, o, n, a, v)
    BY <1>5, <2>3 DEF Judged, Complete
  <2> QED
    BY <1>0, <2>2, <2>4, Zenon
<1>6. CASE n >= o + 5 /\ Pack(s, d) # MIC(request)
  <2>1. v = [status |-> "WrongMIC", response |-> r]
    BY <1>0, <1>1, <1>6, Zenon DEF validateResponse, ComputeMIC
  <2>2. Outcome(s, o, n, a, v)
    BY <1>0, <2>1, Zenon DEF Outcome
  <2>3. v.status = "WrongMIC"
    BY <2>1
  <2>4. Judged(s, o, n, a, v)
    BY <1>0, <1>6, <2>3 DEF Judged, Complete
  <2> QED
    BY <1>0, <2>2, <2>4, Zenon
<1>7. CASE n >= o + 5 /\ Pack(s, d) = MIC(request)
  <2> DEFINE lut == r[LUTSlot(r)]
             start == ChooseStartTS(roundID)
  <2>0. Complete(s, o, n, a.abi)
    BY <1>0, <1>7, Zenon DEF Complete
  <2>1. v = validateLUT(a, r)
    BY <1>0, <1>1, <1>7, Zenon DEF validateResponse, ComputeMIC
  <2>2. CASE LUTFails(r)
    <3>1. v = [status |-> "ProcessError", response |-> r]
      BY <1>2, <1>7, <2>1, <2>2, Zenon DEF validateLUT
    <3>2. Outcome(s, o, n, a, v)
      BY <1>0, <3>1, Zenon DEF Outcome
    <3>3. v.status = "ProcessError"
      BY <3>1
    <3>4. o = StandardOffset(d) => ~(s.lut <= MaxUint64)
      BY <1>3, <1>4, <1>7, <2>2 DEF LUTFails
    <3>5. o = StandardOffset(d) => Judged(s, o, n, a, v)
      BY <3>3, <3>4 DEF Judged
    <3> QED
      BY <1>0, <3>2, <3>5, Zenon
  <2>3. CASE ~LUTFails(r) /\ ~validLUT(lut, a.lutLimit, start)
    <3>1. v = [status |-> "InvalidLUT", response |-> r]
      BY <1>2, <1>7, <2>1, <2>3, Zenon DEF validateLUT
    <3>2. Outcome(s, o, n, a, v)
      BY <1>0, <2>0, <3>1, Zenon DEF Outcome
    <3>3. v.status = "InvalidLUT"
      BY <3>1
    <3>4. o = StandardOffset(d) => s.lut <= MaxUint64 /\ ~Recent(s, a.lutLimit)
      BY <1>3, <1>4, <1>7, <2>3 DEF LUTFails, validLUT, Recent
    <3>5. o = StandardOffset(d) => Judged(s, o, n, a, v)
      BY <2>0, <3>3, <3>4 DEF Judged
    <3> QED
      BY <1>0, <3>2, <3>5, Zenon
  <2>4. CASE ~LUTFails(r) /\ validLUT(lut, a.lutLimit, start)
    <3>1. v = [status |-> "Success", response |-> AddRound(r, roundID),
               hash |-> AddRound(r, roundID)]
      <4>1. /\ Hash(r, roundID).response = AddRound(r, roundID)
            /\ Hash(r, roundID).hash = AddRound(r, roundID)
        BY DEF Hash
      <4>2. v = [status |-> "Success", response |-> Hash(r, roundID).response,
                 hash |-> Hash(r, roundID).hash]
        BY <1>2, <1>7, <2>1, <2>4, Zenon DEF validateLUT
      <4> QED
        BY <4>1, <4>2, Zenon
    <3>2. Outcome(s, o, n, a, v)
      BY <1>0, <2>0, <2>4, <3>1, Zenon DEF Outcome
    <3>3. v.status = "Success"
      BY <3>1
    <3>4. o = StandardOffset(d) => s.lut <= MaxUint64 /\ Recent(s, a.lutLimit)
      BY <1>3, <1>4, <1>7, <2>4 DEF LUTFails, validLUT, Recent
    <3>5. o = StandardOffset(d) => Judged(s, o, n, a, v)
      BY <2>0, <3>3, <3>4 DEF Judged
    <3> QED
      BY <1>0, <3>2, <3>5, Zenon
  <2> QED
    BY <2>2, <2>3, <2>4, Zenon
<1> QED
  BY <1>0, <1>5, <1>6, <1>7, Zenon

-----------------------------------------------------------------------------
(* The invariant.                                                          *)

AttFields == {"status", "abi", "lutLimit", "response", "hash"}

\* The variables are functions on the clients, an attestation has its fields.
Shape ==
    /\ DOMAIN att = Clients /\ DOMAIN answer = Clients
    /\ att = [c \in Clients |-> att[c]]
    /\ \A c \in Clients : DOMAIN att[c] = AttFields
    /\ roundID \in Nat

\* What PrepareRequest found is the configuration of the request's type, and
\* the verifier was asked only after that.
PreparedInv(c) ==
    /\ Prepared(c) =>
          /\ ~TooShort(request) /\ att[c].status # "Waiting"
          /\ att[c].abi = AttestationTypesConfigs[AttestationType(request)].dynamic
          /\ att[c].abi \in BOOLEAN /\ att[c].lutLimit \in Nat
    /\ ~Prepared(c) => answer[c] = None

\* A confirmed request has an answer with all of the struct that the MIC was made
\* of, and its leaf is a function of this answer and the round.
SuccessInv(c) ==
    att[c].status = "Success" =>
        LET x == answer[c]
            r == Encode(x.struct, x.offset, x.length)
        IN  /\ x.struct \in Structs /\ x.offset \in Nat /\ x.length \in Nat
            /\ Complete(x.struct, x.offset, x.length, att[c].abi)
            /\ att[c].abi <=> x.offset > 0
            /\ ~LUTFails(r)
            /\ att[c].response = AddRound(r, roundID)
            /\ att[c].hash = att[c].response

VerdictInv(c) ==
    LET asked == answer[c] # None /\ Whole(c) /\ Asked(c)
        valid == asked /\ InRange(c)
    IN  /\ att[c].status \in {"Success", "InvalidLUT"} => asked
        /\ answer[c] # None /\ AtStandardOffset(c) =>
              /\ att[c].status = "Success" <=> valid /\ Fresh(c)
              /\ att[c].status = "InvalidLUT" <=> valid /\ ~Fresh(c)

ClientInv(c) ==
    /\ att[c].status \in Statuses
    /\ PreparedInv(c)
    /\ SuccessInv(c)
    /\ VerdictInv(c)

Inv == Shape /\ \A c \in Clients : ClientInv(c)

\* Set assigns the fields it is given of one client's attestation.
LEMMA SetFields ==
    ASSUME Shape, NEW c \in Clients, NEW fields, Set(c, fields)
    PROVE  /\ DOMAIN att' = Clients /\ att' = [x \in Clients |-> att'[x]]
           /\ \A d \in Clients : DOMAIN att'[d] = AttFields
           /\ \A d \in Clients \ {c} : att'[d] = att[d]
           /\ \A f \in AttFields :
                 att'[c][f] = IF f \in DOMAIN fields THEN fields[f] ELSE att[c][f]
BY DEF Shape, Set

\* The same, field by field.
LEMMA SetField ==
    ASSUME Shape, NEW c \in Clients, NEW fields, Set(c, fields)
    PROVE  /\ att'[c].status = IF "status" \in DOMAIN fields
                               THEN fields.status ELSE att[c].status
           /\ att'[c].abi = IF "abi" \in DOMAIN fields
                            THEN fields.abi ELSE att[c].abi
           /\ att'[c].lutLimit = IF "lutLimit" \in DOMAIN fields
                                 THEN fields.lutLimit ELSE att[c].lutLimit
           /\ att'[c].response = IF "response" \in DOMAIN fields
                                 THEN fields.response ELSE att[c].response
           /\ att'[c].hash = IF "hash" \in DOMAIN fields
                             THEN fields.hash ELSE att[c].hash
BY SetFields DEF AttFields

\* A step of one client leaves the others alone.
LEMMA OthersUnchanged ==
    ASSUME NEW d \in Clients, ClientInv(d), att'[d] = att[d],
           answer'[d] = answer[d], UNCHANGED <<request, roundID>>
    PROVE  ClientInv(d)'
BY DEF ClientInv, PreparedInv, SuccessInv, VerdictInv, Prepared, Whole, Asked,
       Fresh, InRange, AtStandardOffset, Complete

\* A step that sets fields of c and leaves the request alone keeps the
\* invariant if it keeps c's part of it.
LEMMA OneClient ==
    ASSUME Inv, NEW c \in Clients, NEW fields, Set(c, fields),
           UNCHANGED <<request, roundID>>, DOMAIN answer' = Clients,
           \A d \in Clients \ {c} : answer'[d] = answer[d],
           ClientInv(c)'
    PROVE  Inv'
<1>1. Shape'
  BY SetFields DEF Inv, Shape
<1>2. ASSUME NEW d \in Clients \ {c} PROVE ClientInv(d)'
  BY <1>2, SetFields, OthersUnchanged DEF Inv
<1> QED
  BY <1>1, <1>2 DEF Inv

\* The configuration is found once, before the verifier is asked.
LEMMA PrepareRequestInv ==
    ASSUME Inv, NEW c \in Clients, PrepareRequest(c)
    PROVE  Inv'
<1> DEFINE type == AttestationType(request)
           config == AttestationTypesConfigs[type]
           source == Source(request)
<1>0. /\ Shape /\ ClientInv(c) /\ ~Prepared(c) /\ answer[c] = None
      /\ UNCHANGED <<request, roundID, answer>>
  BY DEF Inv, ClientInv, PreparedInv, PrepareRequest
<1>1. ASSUME NEW fields, Set(c, fields), att'[c].abi \in BOOLEAN \/ ~Prepared(c)',
             att'[c].status \in {"ProcessError", "UnsupportedPair", "Processing"},
             Prepared(c)' => /\ ~TooShort(request) /\ att'[c].lutLimit \in Nat
                             /\ att'[c].abi = config.dynamic
      PROVE  Inv'
  <2>1. att'[c].status \in Statuses
    BY <1>1 DEF Statuses
  <2>2. PreparedInv(c)'
    BY <1>0, <1>1 DEF PreparedInv
  <2>3. SuccessInv(c)' /\ VerdictInv(c)'
    BY <1>0, <1>1 DEF SuccessInv, VerdictInv
  <2>4. ClientInv(c)'
    BY <2>1, <2>2, <2>3 DEF ClientInv
  <2> QED
    BY <1>0, <1>1, <2>4, OneClient DEF Shape
<1>2. CASE Set(c, [status |-> "ProcessError"])
  BY <1>0, <1>1, <1>2, SetField DEF Prepared
<1>3. CASE Set(c, [status |-> "UnsupportedPair"])
  BY <1>0, <1>1, <1>3, SetField DEF Prepared
<1>4. CASE Set(c, [status |-> "UnsupportedPair", abi |-> config.dynamic])
  BY <1>0, <1>1, <1>4, SetField DEF Prepared
<1>5. CASE /\ ~TooShort(request) /\ type \in DOMAIN AttestationTypesConfigs
           /\ source \in DOMAIN config.sources
           /\ Set(c, [status |-> "Processing", abi |-> config.dynamic,
                      lutLimit |-> config.sources[source]])
  BY <1>0, <1>1, <1>5, SetField, VerificationAssumption
<1> QED
  BY <1>2, <1>3, <1>4, <1>5, Zenon DEF PrepareRequest

\* No answer and a refusal: nothing but the status changes, and a request that
\* was confirmed no longer is.
LEMMA HandleStatusInv ==
    ASSUME Inv, NEW c \in Clients, Prepared(c),
           NEW s \in {"ProcessError", "Unconfirmed"}, Set(c, [status |-> s]),
           answer' = [answer EXCEPT ![c] = None], UNCHANGED <<request, roundID>>
    PROVE  Inv'
<1>1. Shape /\ PreparedInv(c)
  BY DEF Inv, ClientInv
<1>2. /\ att'[c].status = s /\ att'[c].abi = att[c].abi
      /\ att'[c].lutLimit = att[c].lutLimit
  BY <1>1, SetField
<1>3. /\ answer'[c] = None /\ DOMAIN answer' = Clients
      /\ \A d \in Clients \ {c} : answer'[d] = answer[d]
  BY <1>1 DEF Shape
<1>4. att'[c].status \in Statuses /\ PreparedInv(c)'
  BY <1>1, <1>2, <1>3 DEF PreparedInv, Prepared, Statuses
<1>5. SuccessInv(c)' /\ VerdictInv(c)'
  BY <1>2, <1>3 DEF SuccessInv, VerdictInv
<1> QED
  BY <1>3, <1>4, <1>5, OneClient DEF ClientInv

\* An answer: the verdict is about this answer, and a leaf is made only of the
\* struct that the MIC was made of.
LEMMA HandleConfirmedInv ==
    ASSUME Inv, NEW c \in Clients, NEW s \in Structs, NEW o \in Offsets,
           NEW n \in Lengths, HandleConfirmed(c, s, o, n)
    PROVE  Inv'
<1> DEFINE r == Encode(s, o, n)
           v == validateResponse(att[c], r)
           d == att[c].abi
           limit == att[c].lutLimit
           x == [struct |-> s, offset |-> o, length |-> n]
<1>0. o \in Nat /\ n \in Nat
  BY VerificationAssumption
<1>1. /\ Shape /\ PreparedInv(c) /\ Prepared(c)
      /\ UNCHANGED <<request, roundID>>
      /\ answer' = [answer EXCEPT ![c] = x]
      /\ (d <=> o > 0) /\ Set(c, v)
  BY Zenon DEF Inv, ClientInv, HandleConfirmed
<1>2. /\ d \in BOOLEAN /\ limit \in Nat
      /\ ~TooShort(request) /\ roundID \in Nat
  BY <1>1 DEF PreparedInv, Shape
<1>3. /\ answer'[c] = x /\ DOMAIN answer' = Clients
      /\ \A e \in Clients \ {c} : answer'[e] = answer[e]
  BY <1>1 DEF Shape
<1>4. /\ answer'[c] # None /\ answer'[c].struct = s
      /\ answer'[c].offset = o /\ answer'[c].length = n
  BY <1>3, VerificationAssumption
<1>5. Outcome(s, o, n, att[c], v) /\ (o = StandardOffset(d) => Judged(s, o, n, att[c], v))
  <2> DEFINE a == att[c]
  <2>1. /\ a.abi \in BOOLEAN /\ a.lutLimit \in Nat /\ roundID \in Nat
        /\ ~TooShort(request) /\ (a.abi <=> o > 0)
    BY <1>1, <1>2, Zenon
  <2> HIDE DEF a
  <2>2. LET w == validateResponse(a, Encode(s, o, n))
        IN  /\ Outcome(s, o, n, a, w)
            /\ o = StandardOffset(a.abi) => Judged(s, o, n, a, w)
    BY <1>0, <2>1, Verdict
  <2> QED
    BY <2>2, Zenon DEF a
<1>6. \/ /\ Complete(s, o, n, d) /\ ~LUTFails(r)
         /\ v = [status |-> "Success", response |-> AddRound(r, roundID),
                 hash |-> AddRound(r, roundID)]
      \/ Complete(s, o, n, d) /\ v = [status |-> "InvalidLUT", response |-> r]
      \/ v = [status |-> "ProcessError", response |-> r]
      \/ v = [status |-> "WrongMIC", response |-> r]
  BY <1>5, Zenon DEF Outcome
<1>7. o = StandardOffset(d) =>
        /\ v.status = "Success"
              <=> Complete(s, o, n, d) /\ s.lut <= MaxUint64 /\ Recent(s, limit)
        /\ v.status = "InvalidLUT"
              <=> Complete(s, o, n, d) /\ s.lut <= MaxUint64 /\ ~Recent(s, limit)
  BY <1>5, Zenon DEF Judged
<1> HIDE DEF r, v, x, d, limit
<1>8. /\ att'[c].abi = d /\ att'[c].lutLimit = limit
      /\ att'[c].status = v.status
  BY <1>1, <1>6, SetField DEF d, limit
<1>9. att'[c].status \in Statuses /\ PreparedInv(c)'
  <2>1. att'[c].status \in {"Success", "InvalidLUT", "ProcessError", "WrongMIC"}
    BY <1>6, <1>8
  <2> QED
    BY <1>1, <1>2, <1>8, <2>1 DEF PreparedInv, Prepared, Statuses, d, limit
<1>10. SuccessInv(c)'
  <2>1. CASE v.status # "Success"
    BY <1>8, <2>1, Zenon DEF SuccessInv
  <2>2. CASE v.status = "Success"
    <3>1. /\ Complete(s, o, n, d) /\ ~LUTFails(r)
          /\ v = [status |-> "Success", response |-> AddRound(r, roundID),
                  hash |-> AddRound(r, roundID)]
      BY <1>6, <2>2
    <3>2. /\ att'[c].response = AddRound(r, roundID)
          /\ att'[c].hash = AddRound(r, roundID)
      BY <1>1, <3>1, SetField
    <3>3. Complete(s, o, n, d)'
      BY <1>1, <1>8, <3>1 DEF Complete, d
    <3> QED
      BY <1>0, <1>1, <1>4, <1>8, <3>1, <3>2, <3>3, Zenon DEF SuccessInv, Complete, r
  <2> QED
    BY <2>1, <2>2
<1>11. VerdictInv(c)'
  <2>1. v.status \in {"Success", "InvalidLUT"} => Complete(s, o, n, d)
    BY <1>6
  <2>2. (answer[c] # None /\ Whole(c) /\ Asked(c))' <=> Complete(s, o, n, d)
    BY <1>1, <1>4, <1>8, Zenon DEF Whole, Asked, Complete, MIC
  <2>3. /\ InRange(c)' <=> s.lut <= MaxUint64
        /\ Fresh(c)' <=> Recent(s, limit)
        /\ AtStandardOffset(c)' <=> o = StandardOffset(d)
    BY <1>1, <1>4, <1>8 DEF InRange, Fresh, Recent, AtStandardOffset
  <2> QED
    BY <1>4, <1>7, <1>8, <2>1, <2>2, <2>3, Zenon DEF VerdictInv
<1> QED
  BY <1>1, <1>3, <1>9, <1>10, <1>11, OneClient DEF ClientInv

\* The invariant is inductive.
LEMMA InvInductive == Spec => []Inv
<1>1. Init => Inv
  <2> SUFFICES ASSUME Init PROVE Inv
    OBVIOUS
  <2>1. /\ DOMAIN att = Clients /\ att = [c \in Clients |-> att[c]]
        /\ DOMAIN answer = Clients /\ roundID \in Nat
        /\ \A c \in Clients : DOMAIN att[c] = AttFields
    BY VerificationAssumption DEF Init, AttFields
  <2>2. ASSUME NEW c \in Clients
        PROVE  /\ answer[c] = None /\ att[c].status = "Waiting"
               /\ att[c].lutLimit = None
    BY DEF Init
  <2> QED
    BY <2>1, <2>2 DEF Inv, Shape, ClientInv, PreparedInv, SuccessInv, VerdictInv,
                      Prepared, Statuses
<1>2. Inv /\ [Next]_vars => Inv'
  <2> SUFFICES ASSUME Inv, [Next]_vars PROVE Inv'
    OBVIOUS
  <2>1. CASE UNCHANGED vars
    <3>1. ASSUME NEW c \in Clients PROVE ClientInv(c)'
      BY <2>1, OthersUnchanged DEF Inv, vars
    <3> QED
      BY <2>1, <3>1 DEF Inv, Shape, vars
  <2>2. ASSUME NEW c \in Clients, PrepareRequest(c) PROVE Inv'
    BY <2>2, PrepareRequestInv
  <2>3. ASSUME NEW c \in Clients, HandleFails(c) \/ HandleUnconfirmed(c)
        PROVE  Inv'
    BY <2>3, HandleStatusInv DEF HandleFails, HandleUnconfirmed
  <2>4. ASSUME NEW c \in Clients, NEW s \in Structs, NEW o \in Offsets,
               NEW n \in Lengths, HandleConfirmed(c, s, o, n)
        PROVE  Inv'
    BY <2>4, HandleConfirmedInv
  <2> QED
    BY <2>1, <2>2, <2>3, <2>4, Zenon DEF Next
<1> QED
  BY <1>1, <1>2, PTL DEF Spec

-----------------------------------------------------------------------------
(* Theorems.                                                               *)

\* validateResponse never slices beyond the end of an answer, whatever the
\* verifier sends: LUT is reached only with an answer that the decoder took.
THEOREM NoPanicProved == Spec => []NoPanic
<1>1. Inv => NoPanic
  BY DEF Inv, ClientInv, NoPanic
<1> QED
  BY <1>1, InvInductive, PTL

\* A request is confirmed by Handle, or found too old, exactly if the last
\* answer says so.
THEOREM VerdictRightProved == Spec => []VerdictRight
<1>1. Inv => VerdictRight
  BY Zenon DEF Inv, ClientInv, VerdictInv, VerdictRight
<1> QED
  BY <1>1, InvInductive, PTL

\* Any number of clients that confirm a request in a round have the same leaf
\* for it exactly if their verifiers encoded the last answers alike.
THEOREM HashAgreementProved == Spec => []HashAgreement
<1>1. ASSUME Inv, NEW c \in Clients, NEW e \in Clients,
             att[c].status = "Success", att[e].status = "Success"
      PROVE  att[c].hash = att[e].hash <=> SameEncoding(c, e)
  <2> DEFINE x == answer[c]
             y == answer[e]
             d == att[c].abi
  <2>1. /\ x.struct \in Structs /\ x.offset \in Nat /\ x.length \in Nat
        /\ x.length >= x.offset + 5 /\ Pack(x.struct, d) = MIC(request)
        /\ (d <=> x.offset > 0)
        /\ att[c].hash = AddRound(Encode(x.struct, x.offset, x.length), roundID)
    BY <1>1, Zenon DEF Inv, ClientInv, SuccessInv, Complete
  <2>2. d \in BOOLEAN /\ att[e].abi = d
    BY <1>1, Zenon DEF Inv, ClientInv, VerdictInv, PreparedInv
  <2>3. /\ y.struct \in Structs /\ y.offset \in Nat /\ y.length \in Nat
        /\ y.length >= y.offset + 5 /\ Pack(y.struct, d) = MIC(request)
        /\ (d <=> y.offset > 0)
        /\ att[e].hash = AddRound(Encode(y.struct, y.offset, y.length), roundID)
    BY <1>1, <2>2, Zenon DEF Inv, ClientInv, SuccessInv, Complete
  <2> HIDE DEF x, y, d
  <2>4. x.struct = y.struct
    BY <2>1, <2>2, <2>3, PackUnpack
  <2>5. ASSUME att[c].hash = att[e].hash
        PROVE  x.offset = y.offset /\ x.length = y.length
    BY <2>1, <2>3, <2>4, <2>5, EncodingsDiffer
  <2>6. ASSUME x.offset = y.offset, x.length = y.length
        PROVE  att[c].hash = att[e].hash
    BY <2>1, <2>3, <2>4, <2>6, Zenon
  <2> QED
    BY <2>5, <2>6, Zenon DEF SameEncoding, x, y
<1>2. Inv => HashAgreement
  BY <1>1, Zenon DEF HashAgreement
<1> QED
  BY <1>2, InvInductive, PTL

\* What the DA layer gets is the struct that was asked for, with the round in it
\* if it is at its standard offset, and hashes to the leaf.
THEOREM ResponseProvableProved == Spec => []ResponseProvable
<1>1. ASSUME Inv, NEW c \in Clients, att[c].status = "Success"
      PROVE  /\ att[c].hash = att[c].response
             /\ Unpack(att[c].response, att[c].abi)
                   = [Unpack(MIC(request), att[c].abi) EXCEPT !.round =
                         IF AtStandardOffset(c) THEN roundID ELSE @]
  <2> DEFINE x == answer[c]
             d == att[c].abi
             r == Encode(x.struct, x.offset, x.length)
  <2>1. /\ x.struct \in Structs /\ x.offset \in Nat /\ x.length \in Nat
        /\ x.length >= x.offset + 5 /\ Pack(x.struct, d) = MIC(request)
        /\ (d <=> x.offset > 0) /\ ~LUTFails(r)
        /\ att[c].response = AddRound(r, roundID) /\ att[c].hash = att[c].response
    BY <1>1, Zenon DEF Inv, ClientInv, SuccessInv, Complete
  <2>2. d \in BOOLEAN
    BY <1>1, Zenon DEF Inv, ClientInv, VerdictInv, PreparedInv
  <2> HIDE DEF x, d
  <2>3. Unpack(AddRound(r, roundID), d)
           = [x.struct EXCEPT !.round =
                 IF x.offset = StandardOffset(d) THEN roundID ELSE @]
    BY <2>1, <2>2, RoundWritten
  <2>4. Unpack(MIC(request), d) = x.struct
    BY <2>1, <2>2, PackUnpack
  <2> QED
    BY <2>1, <2>3, <2>4, Zenon DEF AtStandardOffset, x, d
<1>2. Inv => ResponseProvable
  BY <1>1, Zenon DEF ResponseProvable
<1> QED
  BY <1>2, InvInductive, PTL

=============================================================================
