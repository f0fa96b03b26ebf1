--------------------------- MODULE CollectorProofs ---------------------------
(***************************************************************************)
(* Proofs about Collector, for all constants: any durations, voters,       *)
(* channel capacities and bounds, and any number of crashes.  First that   *)
(* bitVotes and consensus are of their own round, then the types, and that *)
(* a round read in time counts all bitVotes.                               *)
(***************************************************************************)
EXTENDS Collector, TimingProofs, FiniteSetTheorems, SequenceTheorems

\* What others write: blocks are not changed once they are indexed, and an
\* honest voter's bitVote stays right, because the round it is about has ended.
ChainInv ==
    /\ now \in Nat /\ T0 <= now /\ now <= MaxTime
    /\ indexed \in Nat /\ indexed <= now
    /\ requests \subseteq Nat
    /\ \A t \in requests : T0 <= t /\ t <= now
    /\ bitVotes \subseteq BitVotes
    /\ \A v \in bitVotes : v.ts <= now
    /\ \A v \in bitVotes : v.from \notin Faulty => Honest(v)

\* The request listener, its channel and the requests in the rounds.
ListenerInv ==
    /\ rPc \in {"off", "start", "poll", "send"}
    /\ rFrom \in Nat /\ rLast \in Nat
    /\ rLast <= indexed
    /\ reqChan \in Seq(SUBSET Nat)
    /\ rPc \in {"off", "start"} => known = {} /\ reqChan = <<>>
    /\ rPc \in {"poll", "send"} => rFrom <= rLast + 1
    /\ rPc # "send" => rOut = {}
    /\ known \subseteq requests
    /\ RequestsExactlyOnce

\* BitVotes on their way to the manager were cast in the choose phase of the
\* round they are sent for, and that round has been reported.
OnTheWay(r, S) ==
    /\ r \in Nat /\ r < next
    /\ S \subseteq bitVotes
    /\ \A v \in S : InWindow(v, r)

Messages == [id: Nat, msgs: SUBSET BitVotes]

ChooseInv ==
    /\ next \in Nat
    /\ tPc \in {"off", "start", "poll", "send", "wait"}
    /\ bPc \in {"off", "idle", "fetch", "send"}
    /\ bPc \in {"fetch", "send"} => OnTheWay(bRound, bOut)
    /\ bPc # "send" => bOut = {}
    /\ bvChan \in Seq(Messages)
    /\ \A i \in 1..Len(bvChan) : OnTheWay(bvChan[i].id, bvChan[i].msgs)
    /\ rPc = "off" => tPc = "off"
    /\ tPc \in {"off", "start"} =>
           bPc \notin {"fetch", "send"} /\ bvChan = <<>> /\ counted = {}

\* BitVotes in the rounds.
CountInv ==
    /\ counted \subseteq bitVotes
    /\ calc \in [Rounds -> {"no", "failed", "ok"}]
    /\ \A v \in counted : v.from \notin Faulty =>
           RequestsOf(v.round, known) = RequestsOf(v.round, requests)
    /\ \A r \in Rounds : calc[r] = "ok" => ChooseStartTS(r) <= now
    /\ NoForeignBitVotes
    /\ ConsensusOnAllRequests

Inv == ChainInv /\ ListenerInv /\ ChooseInv /\ CountInv

-----------------------------------------------------------------------------
(* Facts about the operators.                                              *)

\* A sent message is in the channel, besides what was there.
LEMMA ContentAppend ==
    ASSUME NEW q \in Seq(SUBSET Nat), NEW e \in SUBSET Nat
    PROVE  Content(Append(q, e)) = Content(q) \cup e
  <1>1. /\ DOMAIN Append(q, e) = 1..(Len(q) + 1)
        /\ \A i \in 1..Len(q) : Append(q, e)[i] = q[i]
        /\ Append(q, e)[Len(q) + 1] = e
        /\ DOMAIN q = 1..Len(q) /\ Len(q) \in Nat
    OBVIOUS
  <1>2. 1..(Len(q) + 1) = (1..Len(q)) \cup {Len(q) + 1}
    BY <1>1
  <1> QED
    BY <1>1, <1>2 DEF Content

\* The channel is its first message and the rest.
LEMMA ContentTail ==
    ASSUME NEW X, NEW q \in Seq(X), q # <<>>
    PROVE  Content(q) = Head(q) \cup Content(Tail(q))
  <1>1. /\ DOMAIN q = 1..Len(q) /\ Len(q) \in Nat /\ Len(q) >= 1
        /\ DOMAIN Tail(q) = 1..(Len(q) - 1)
        /\ \A i \in 1..(Len(q) - 1) : Tail(q)[i] = q[i + 1]
        /\ Head(q) = q[1]
    OBVIOUS
  <1>2. \A i \in 2..Len(q) : i - 1 \in 1..(Len(q) - 1) /\ q[i] = Tail(q)[i - 1]
    BY <1>1
  <1>3. \A i \in 1..Len(q) : i = 1 \/ i \in 2..Len(q)
    BY <1>1
  <1>4. \A i \in 1..(Len(q) - 1) : i + 1 \in 1..Len(q)
    BY <1>1
  <1>5. 1 \in 1..Len(q)
    BY <1>1
  <1>6. Content(q) \subseteq Head(q) \cup Content(Tail(q))
    <2> SUFFICES ASSUME NEW x, NEW i \in 1..Len(q), x \in q[i]
                 PROVE  x \in Head(q) \cup Content(Tail(q))
      BY <1>1 DEF Content
    <2>1. CASE i = 1
      BY <2>1, <1>1
    <2>2. CASE i \in 2..Len(q)
      BY <2>2, <1>1, <1>2 DEF Content
    <2> QED
      BY <2>1, <2>2, <1>3
  <1>7. Head(q) \cup Content(Tail(q)) \subseteq Content(q)
    BY <1>1, <1>4, <1>5 DEF Content
  <1> QED
    BY <1>6, <1>7

\* A timestamp in the choose phase of a round is acceptable for no other one.
LEMMA OneRound ==
    ASSUME NEW v \in BitVotes, NEW r \in Nat, InWindow(v, r), OnBitVote(v)
    PROVE  v.round = r
  <1>1. /\ v.round \in Nat /\ v.ts \in Nat
        /\ ChooseStartTS(r) \in Nat /\ ChooseStartTS(v.round) \in Nat
        /\ ChooseEndTS(r) \in Nat /\ ChooseEndTS(v.round) \in Nat
    BY RoundStartType, TimingAssumption
       DEF BitVotes, Rounds, Times, ChooseStartTS, ChooseEndTS
  <1>2. /\ ChooseStartTS(r) <= v.ts /\ v.ts < ChooseEndTS(r)
        /\ ChooseStartTS(v.round) <= v.ts /\ v.ts < ChooseEndTS(v.round)
    BY <1>1 DEF InWindow, OnBitVote
  <1>3. ~(r < v.round)
    BY <1>1, <1>2, ChoosePhasesDisjoint
  <1>4. ~(v.round < r)
    BY <1>1, <1>2, ChoosePhasesDisjoint
  <1> QED
    BY <1>1, <1>3, <1>4

\* A request emitted now is in no round whose collect phase is over.
LEMMA OldRoundsFixed ==
    ASSUME ChainInv, NEW r \in Nat, ChooseStartTS(r) <= now
    PROVE  RequestsOf(r, requests \cup {now}) = RequestsOf(r, requests)
  <1>1. RoundIDForTS(now) # r
    <2>1. now \in Nat /\ T0 <= now
      BY DEF ChainInv
    <2>2. RoundIDForTS(now) = r => now < RoundStartTS(r + 1)
      BY <2>1, RoundOfTimestamp
    <2> QED
      BY <2>1, <2>2, RoundStartType DEF ChooseStartTS
  <1> QED
    BY <1>1 DEF RequestsOf

-----------------------------------------------------------------------------
(* The parts of the invariant, one by one.                                 *)

\* The initial state.
LEMMA InitInv == Init => Inv
  <1> SUFFICES ASSUME Init PROVE Inv
    OBVIOUS
  <1> USE DEF Init
  <1>1. ChainInv
    BY TimingAssumption, CollectorAssumption DEF ChainInv
  <1>2. ListenerInv
    BY DEF ListenerInv, RequestsExactlyOnce
  <1>3. ChooseInv
    BY DEF ChooseInv
  <1>4. CountInv
    BY DEF CountInv, NoForeignBitVotes, ConsensusOnAllRequests
  <1> QED
    BY <1>1, <1>2, <1>3, <1>4 DEF Inv

\* Only the chain's own steps change what ChainInv is about.
LEMMA ChainStep == ChainInv /\ [Next]_vars => ChainInv'
  <1> SUFFICES ASSUME ChainInv, [Next]_vars PROVE ChainInv'
    OBVIOUS
  <1>1. CASE UNCHANGED chainVars
    BY <1>1 DEF chainVars, ChainInv, Honest
  <1>2. CASE TimePasses
    <2>1. \A v \in bitVotes : v.ts \in Nat
      BY TimingAssumption DEF ChainInv, BitVotes, Times
    <2>2. /\ now' = now + 1 /\ now < MaxTime
          /\ UNCHANGED <<indexed, requests, bitVotes>>
      BY <1>2 DEF TimePasses
    <2> QED
      BY <2>1, <2>2, TimingAssumption, CollectorAssumption DEF ChainInv, Honest
  <1>3. CASE IndexerCatchesUp
    BY <1>3 DEF IndexerCatchesUp, ChainInv, Honest
  <1>4. CASE RequestEmitted
    <2>1. \A v \in bitVotes : v.from \notin Faulty => Honest(v)'
      <3> SUFFICES ASSUME NEW v \in bitVotes, v.from \notin Faulty PROVE Honest(v)'
        OBVIOUS
      <3>1. /\ v.round \in Nat /\ v.ts \in Nat /\ v.ts <= now
            /\ ChooseStartTS(v.round) <= v.ts
            /\ Honest(v)
        BY TimingAssumption DEF ChainInv, BitVotes, Rounds, Times, Honest
      <3>2. ChooseStartTS(v.round) \in Nat
        BY <3>1, RoundStartType DEF ChooseStartTS
      <3>3. ChooseStartTS(v.round) <= now
        BY <3>1, <3>2 DEF ChainInv
      <3>4. RequestsOf(v.round, requests') = RequestsOf(v.round, requests)
        BY <1>4, <3>1, <3>3, OldRoundsFixed DEF RequestEmitted
      <3> QED
        BY <3>1, <3>4 DEF Honest
    <2> QED
      BY <1>4, <2>1 DEF RequestEmitted, ChainInv
  <1>5. CASE BitVoteSubmitted
    <2>1. PICK f \in Voters, r \in Rounds, l \in 0..MaxRequests :
              LET v == [from |-> f, ts |-> now, round |-> r, len |-> l]
              IN  /\ f \in Faulty \/ Honest(v)
                  /\ bitVotes' = bitVotes \cup {v}
      BY <1>5 DEF BitVoteSubmitted
    <2> DEFINE v == [from |-> f, ts |-> now, round |-> r, len |-> l]
    <2>2. now' = now /\ indexed' = indexed /\ requests' = requests
      BY <1>5 DEF BitVoteSubmitted
    <2>3. v \in BitVotes /\ v.ts <= now /\ (v.from \notin Faulty => Honest(v))
      BY <2>1, TimingAssumption DEF ChainInv, BitVotes, Times
    <2>4. \A w \in bitVotes' : w \in bitVotes \/ w = v
      BY <2>1
    <2> QED
      BY <2>2, <2>3, <2>4 DEF ChainInv, Honest
  <1> QED
    BY <1>1, <1>2, <1>3, <1>4, <1>5
       DEF Next, vars, ChainNext, Run, Crash, RequestNext, ChooseNext, ManagerNext,
           AttestationRequestListenerStarts, AttestationRequestListener,
           SendRequests, PrepareChooseTriggerStarts, tryTriggerBitVote, SendTrigger,
           WaitForTick, BitVoteListener, SendBitVotes, OnRequests, OnBitVotes

\* Taking messages from the channel into the rounds, or a new query, keeps
\* every request in exactly one place.
LEMMA ListenerStep == ChainInv /\ ListenerInv /\ [Next]_vars => ListenerInv'
  <1> SUFFICES ASSUME ChainInv, ListenerInv, [Next]_vars PROVE ListenerInv'
    OBVIOUS
  <1>1. CASE UNCHANGED <<indexed, requests, requestVars, reqChan, known>>
    BY <1>1 DEF requestVars, ListenerInv, RequestsExactlyOnce, InChannel, Content
  <1>2. CASE IndexerCatchesUp
    BY <1>2 DEF IndexerCatchesUp, requestVars, roundVars, ChainInv, ListenerInv,
                RequestsExactlyOnce, InChannel, Content
  <1>3. CASE RequestEmitted
    <2>1. /\ requests' = requests \cup {now} /\ indexed < now
          /\ UNCHANGED <<indexed, rPc, rFrom, rLast, rOut, reqChan, known>>
      BY <1>3 DEF RequestEmitted, requestVars, roundVars
    <2>2. {t \in requests' : rFrom <= t /\ t <= rLast} =
              {t \in requests : rFrom <= t /\ t <= rLast}
      BY <2>1 DEF ChainInv, ListenerInv
    <2> QED
      BY <2>1, <2>2 DEF ListenerInv, RequestsExactlyOnce, InChannel, Content
  <1>4. CASE Run
    BY <1>4 DEF Run, Running, chainVars, roundVars, ListenerInv,
                RequestsExactlyOnce
  <1>5. CASE Crash
    BY <1>5 DEF Crash, chainVars, ChainInv, ListenerInv, RequestsExactlyOnce
  <1>6. CASE AttestationRequestListenerStarts
    <2> DEFINE start == LastCollectPhaseStart(now)
    <2>1. start \in Nat
      BY RoundOfTimestamp, RoundStartType DEF ChainInv, LastCollectPhaseStart
    <2>2. /\ rPc = "start" /\ known = {} /\ reqChan = <<>>
          /\ rFrom' = IF start <= indexed THEN start ELSE indexed + 1
          /\ rLast' = indexed
          /\ rOut' = {t \in requests : start <= t /\ t <= indexed}
          /\ rPc' = IF rOut' = {} THEN "poll" ELSE "send"
          /\ UNCHANGED <<indexed, requests, reqChan, known>>
      BY <1>6 DEF AttestationRequestListenerStarts, Fetched, chainVars, roundVars,
                  ListenerInv
    <2> HIDE DEF start
    <2>0. requests \subseteq Nat /\ indexed \in Nat
      BY DEF ChainInv
    <2>3. rOut' = {t \in requests' : rFrom' <= t /\ t <= rLast'}
      <3>1. CASE start <= indexed
        BY <3>1, <2>2
      <3>2. CASE ~(start <= indexed)
        <4>1. \A t \in requests : ~(start <= t /\ t <= indexed)
          BY <3>2, <2>0, <2>1
        <4>2. \A t \in requests : ~(indexed + 1 <= t /\ t <= indexed)
          BY <2>0
        <4> QED
          BY <3>2, <4>1, <4>2, <2>2
      <3> QED
        BY <3>1, <3>2
    <2>4. Content(<<>>) = {}
      BY DEF Content
    <2> QED
      BY <2>1, <2>2, <2>3, <2>4
         DEF ChainInv, ListenerInv, RequestsExactlyOnce, InChannel
  <1>7. CASE AttestationRequestListener
    <2>1. /\ rPc = "poll" /\ rOut = {}
          /\ rLast' = indexed
          /\ rOut' = {t \in requests : rLast < t /\ t <= indexed}
          /\ rPc' = IF rOut' = {} THEN "poll" ELSE "send"
          /\ UNCHANGED <<indexed, requests, rFrom, reqChan, known>>
      BY <1>7 DEF AttestationRequestListener, Fetched, chainVars, roundVars,
                  ListenerInv
    <2>2. known \cup InChannel = {t \in requests : rFrom <= t /\ t <= rLast}
      BY <2>1 DEF ListenerInv, RequestsExactlyOnce
    <2>0. /\ requests \subseteq Nat /\ indexed \in Nat /\ rFrom \in Nat
          /\ rLast \in Nat /\ rLast <= indexed /\ rFrom <= rLast + 1
      BY <2>1 DEF ChainInv, ListenerInv
    <2>3. known \cup InChannel \cup rOut' =
              {t \in requests : rFrom <= t /\ t <= indexed}
      <3>1. \A t \in requests : (rFrom <= t /\ t <= indexed) <=>
                \/ rFrom <= t /\ t <= rLast
                \/ rLast < t /\ t <= indexed
        BY <2>0
      <3> QED
        BY <3>1, <2>1, <2>2
    <2>4. known \cap rOut' = {} /\ InChannel \cap rOut' = {}
      <3>1. \A t \in requests : ~(t <= rLast /\ rLast < t)
        BY <2>0
      <3> QED
        BY <3>1, <2>1, <2>2
    <2>5. InChannel' = InChannel
      BY <2>1 DEF InChannel, Content
    <2> QED
      BY <2>1, <2>3, <2>4, <2>5 DEF ChainInv, ListenerInv, RequestsExactlyOnce
  <1>8. CASE SendRequests
    <2>1. /\ rPc = "send" /\ rPc' = "poll" /\ rOut' = {}
          /\ reqChan' = Append(reqChan, rOut)
          /\ UNCHANGED <<indexed, requests, rFrom, rLast, known>>
      BY <1>8 DEF SendRequests, chainVars, roundVars
    <2>2. /\ reqChan \in Seq(SUBSET Nat) /\ rOut \in SUBSET Nat
          /\ RequestsExactlyOnce
      BY <2>1 DEF ListenerInv, RequestsExactlyOnce, ChainInv
    <2>3. InChannel' = InChannel \cup rOut
      <3>1. Content(Append(reqChan, rOut)) = Content(reqChan) \cup rOut
        BY <2>2, ContentAppend
      <3> QED
        BY <2>1, <3>1 DEF InChannel
    <2>4. reqChan' \in Seq(SUBSET Nat)
      BY <2>1, <2>2
    <2>5. ASSUME NEW i \in DOMAIN reqChan', NEW j \in DOMAIN reqChan', i # j
          PROVE  reqChan'[i] \cap reqChan'[j] = {}
      <3>1. \A k \in DOMAIN reqChan' :
                \/ k \in DOMAIN reqChan /\ reqChan'[k] = reqChan[k]
                \/ k = Len(reqChan) + 1 /\ reqChan'[k] = rOut
        BY <2>1, <2>2
      <3>2. \A k \in DOMAIN reqChan : reqChan[k] \cap rOut = {}
        BY <2>1, <2>2 DEF RequestsExactlyOnce, InChannel, Content
      <3> QED
        BY <2>1, <2>2, <2>5, <3>1, <3>2 DEF RequestsExactlyOnce
    <2> QED
      BY <2>1, <2>2, <2>3, <2>4, <2>5 DEF ListenerInv, RequestsExactlyOnce
  <1>9. CASE OnRequests
    <2> DEFINE m == Head(reqChan)
    <2>1. /\ reqChan # <<>> /\ reqChan' = Tail(reqChan)
          /\ known' = known \cup m
          /\ UNCHANGED <<indexed, requests, rPc, rFrom, rLast, rOut>>
      BY <1>9 DEF OnRequests, chainVars, requestVars
    <2>2. /\ reqChan \in Seq(SUBSET Nat) /\ rPc \in {"poll", "send"}
          /\ RequestsExactlyOnce
      BY <2>1 DEF ListenerInv
    <2>3. InChannel = m \cup InChannel'
      BY <2>1, <2>2, ContentTail DEF InChannel
    <2>4. /\ reqChan' \in Seq(SUBSET Nat)
          /\ DOMAIN reqChan' = 1..(Len(reqChan) - 1)
          /\ \A i \in DOMAIN reqChan' : reqChan'[i] = reqChan[i + 1]
          /\ DOMAIN reqChan = 1..Len(reqChan) /\ Len(reqChan) \in Nat
          /\ 1 \in DOMAIN reqChan /\ m = reqChan[1]
      BY <2>1, <2>2
    <2>5. \A i \in DOMAIN reqChan' : i + 1 \in DOMAIN reqChan /\ i + 1 # 1
      BY <2>4
    <2>6. \A i, j \in DOMAIN reqChan' : i # j => reqChan'[i] \cap reqChan'[j] = {}
      BY <2>2, <2>4, <2>5 DEF RequestsExactlyOnce
    <2>7. \A i \in DOMAIN reqChan' : m \cap reqChan'[i] = {}
      BY <2>2, <2>4, <2>5 DEF RequestsExactlyOnce
    <2>8. m \cap InChannel' = {}
      BY <2>7 DEF InChannel, Content
    <2>9. known' \cup InChannel' \cup rOut' = known \cup InChannel \cup rOut
      BY <2>1, <2>3
    <2>10. /\ known' \cap InChannel' = {} /\ known' \cap rOut' = {}
           /\ InChannel' \cap rOut' = {}
      BY <2>1, <2>2, <2>3, <2>8 DEF RequestsExactlyOnce
    <2>11. RequestsExactlyOnce'
      BY <2>1, <2>2, <2>6, <2>9, <2>10 DEF RequestsExactlyOnce
    <2>12. known' \subseteq requests'
      BY <2>1, <2>2, <2>9 DEF RequestsExactlyOnce
    <2> QED
      BY <2>1, <2>2, <2>4, <2>11, <2>12 DEF ListenerInv
  <1> QED
    BY <1>1, <1>2, <1>3, <1>4, <1>5, <1>6, <1>7, <1>8, <1>9
       DEF Next, vars, chainVars, roundVars, requestVars, ChainNext, RequestNext,
           ChooseNext, ManagerNext, TimePasses, BitVoteSubmitted,
           PrepareChooseTriggerStarts, tryTriggerBitVote, SendTrigger,
           WaitForTick, BitVoteListener, SendBitVotes, OnBitVotes

\* What is on its way stays on its way while the chain grows.
LEMMA OnTheWayStable ==
    ASSUME NEW r, NEW S, OnTheWay(r, S), next \in Nat, next' \in Nat,
           next <= next', bitVotes \subseteq bitVotes'
    PROVE  OnTheWay(r, S)'
  BY DEF OnTheWay, InWindow

\* BitVotes only get on their way for a round that was reported.
LEMMA ChooseStep == ChainInv /\ ChooseInv /\ CountInv /\ [Next]_vars => ChooseInv'
  <1> SUFFICES ASSUME ChainInv, ChooseInv, CountInv, [Next]_vars PROVE ChooseInv'
    OBVIOUS
  <1> DEFINE Same == /\ rPc' = "off" => rPc = "off"
                     /\ UNCHANGED <<next, tPc, bPc, bRound, bOut, bvChan, counted>>
  <1>1. ASSUME Same, bitVotes \subseteq bitVotes' PROVE ChooseInv'
    <2>1. \A i \in 1..Len(bvChan) : OnTheWay(bvChan[i].id, bvChan[i].msgs)'
      BY <1>1, OnTheWayStable DEF ChooseInv
    <2>2. bPc \in {"fetch", "send"} => OnTheWay(bRound, bOut)'
      BY <1>1, OnTheWayStable DEF ChooseInv
    <2> QED
      BY <1>1, <2>1, <2>2 DEF ChooseInv, OnTheWay, InWindow
  <1>2. CASE Run
    BY <1>2 DEF Run, Running, chainVars, roundVars, ChooseInv, OnTheWay, InWindow
  <1>3. CASE Crash
    BY <1>3 DEF Crash, ChooseInv
  <1>4. CASE PrepareChooseTriggerStarts
    <2>1. /\ tPc = "start" /\ tPc' = "poll" /\ next' = NextChooseEnd(indexed)
          /\ UNCHANGED <<rPc, bPc, bRound, bOut, bvChan, counted>>
      BY <1>4 DEF PrepareChooseTriggerStarts, requestVars, bitVoteVars, roundVars
    <2>2. next' \in Nat
      BY <2>1, NextChooseEndIsNext DEF ChainInv
    <2> QED
      BY <2>1, <2>2 DEF ChooseInv
  <1>5. CASE tryTriggerBitVote \/ WaitForTick
    <2>1. /\ tPc \in {"poll", "wait"} /\ tPc' \in {"poll", "send"}
          /\ UNCHANGED <<rPc, bitVotes, next, bPc, bRound, bOut, bvChan, counted>>
      BY <1>5 DEF requestVars, tryTriggerBitVote, WaitForTick, chainVars,
                  bitVoteVars, roundVars
    <2> QED
      BY <2>1 DEF ChooseInv, OnTheWay, InWindow
  <1>6. CASE SendTrigger
    <2>1. /\ tPc = "send" /\ bPc = "idle" /\ bPc' = "fetch"
          /\ bRound' = next /\ next' = next + 1
          /\ tPc' = "wait"
          /\ UNCHANGED <<rPc, bitVotes, bOut, bvChan, counted>>
      BY <1>6 DEF requestVars, SendTrigger, chainVars, roundVars
    <2>2. next \in Nat /\ bOut = {}
      BY <2>1 DEF ChooseInv
    <2>3. \A i \in 1..Len(bvChan) : OnTheWay(bvChan[i].id, bvChan[i].msgs)'
      BY <2>1, <2>2, OnTheWayStable DEF ChooseInv
    <2>4. OnTheWay(bRound, bOut)'
      BY <2>1, <2>2 DEF OnTheWay
    <2> QED
      BY <2>1, <2>2, <2>3, <2>4 DEF ChooseInv
  <1>7. CASE BitVoteListener
    <2>1. /\ bPc = "fetch" /\ bPc' \in {"send", "idle"}
          /\ bPc' # "send" => bOut' = {}
          /\ \A v \in bOut' : v \in bitVotes /\ InWindow(v, bRound)
          /\ UNCHANGED <<rPc, bitVotes, next, tPc, bRound, bvChan, counted>>
      BY <1>7 DEF requestVars, BitVoteListener, chainVars, triggerVars, roundVars
    <2>2. OnTheWay(bRound, bOut)'
      BY <2>1 DEF OnTheWay, InWindow, ChooseInv
    <2> QED
      BY <2>1, <2>2 DEF ChooseInv, OnTheWay, InWindow
  <1>8. CASE SendBitVotes
    <2> DEFINE m == [id |-> bRound, msgs |-> bOut]
    <2>1. /\ bPc = "send" /\ bPc' = "idle" /\ bOut' = {}
          /\ bvChan' = Append(bvChan, m)
          /\ UNCHANGED <<rPc, bitVotes, next, tPc, bRound, counted>>
      BY <1>8 DEF requestVars, SendBitVotes, chainVars, triggerVars, roundVars
    <2>2. /\ bvChan \in Seq(Messages) /\ OnTheWay(m.id, m.msgs) /\ next \in Nat
      BY <2>1 DEF ChooseInv
    <2>3. m \in Messages
      BY <2>2 DEF Messages, OnTheWay, ChainInv
    <2>4. /\ bvChan' \in Seq(Messages)
          /\ Len(bvChan') = Len(bvChan) + 1 /\ Len(bvChan) \in Nat
          /\ \A i \in 1..Len(bvChan) : bvChan'[i] = bvChan[i]
          /\ bvChan'[Len(bvChan) + 1] = m
      <3> HIDE DEF m
      <3> QED
        BY <2>1, <2>2, <2>3, AppendProperties
    <2>5. ASSUME NEW i \in 1..Len(bvChan')
          PROVE  OnTheWay(bvChan'[i].id, bvChan'[i].msgs)
      <3>1. i \in 1..Len(bvChan) \/ i = Len(bvChan) + 1
        BY <2>4
      <3> QED
        BY <3>1, <2>2, <2>4 DEF ChooseInv
    <2>6. \A i \in 1..Len(bvChan') : OnTheWay(bvChan[i].id, bvChan[i].msgs)'
      BY <2>5, <2>1 DEF OnTheWay, InWindow
    <2> QED
      BY <2>1, <2>2, <2>4, <2>6 DEF ChooseInv
  <1>9. CASE OnBitVotes
    <2>1. /\ bvChan # <<>> /\ bvChan' = Tail(bvChan)
          /\ UNCHANGED <<rPc, bitVotes, next, tPc, bPc, bRound, bOut>>
      BY <1>9 DEF requestVars, OnBitVotes, chainVars, triggerVars, bitVoteVars
    <2>2. bvChan \in Seq(Messages) /\ tPc \notin {"off", "start"}
      BY <2>1 DEF ChooseInv
    <2>3. /\ bvChan' \in Seq(Messages)
          /\ Len(bvChan') = Len(bvChan) - 1 /\ Len(bvChan) \in Nat
          /\ \A i \in 1..Len(bvChan') : bvChan'[i] = bvChan[i + 1]
      BY <2>1, <2>2, HeadTailProperties
    <2>4. \A i \in 1..Len(bvChan') : i + 1 \in 1..Len(bvChan)
      BY <2>3
    <2>5. \A i \in 1..Len(bvChan') : OnTheWay(bvChan'[i].id, bvChan'[i].msgs)
      BY <2>3, <2>4 DEF ChooseInv
    <2> QED
      BY <2>1, <2>2, <2>3, <2>5 DEF ChooseInv, OnTheWay, InWindow
  <1>10. CASE \/ TimePasses \/ IndexerCatchesUp \/ RequestEmitted
              \/ BitVoteSubmitted
              \/ AttestationRequestListenerStarts \/ AttestationRequestListener
              \/ SendRequests \/ OnRequests \/ UNCHANGED vars
    <2>1. Same /\ bitVotes \subseteq bitVotes'
      BY <1>10 DEF requestVars, Fetched, TimePasses, IndexerCatchesUp,
                   RequestEmitted, BitVoteSubmitted,
                   AttestationRequestListenerStarts, AttestationRequestListener,
                   SendRequests, OnRequests, vars, chainVars, triggerVars,
                   bitVoteVars, roundVars
    <2> QED
      BY <2>1, <1>1
  <1> QED
    BY <1>2, <1>3, <1>4, <1>5, <1>6, <1>7, <1>8, <1>9, <1>10
       DEF Next, ChainNext, RequestNext, ChooseNext, ManagerNext

\* A quorum has a voter that is not faulty.
LEMMA QuorumHasHonest ==
    ASSUME NEW Q \in SUBSET Voters, 2 * Cardinality(Q) > Cardinality(Voters)
    PROVE  \E f \in Q : f \notin Faulty
  <1> SUFFICES ASSUME Q \subseteq Faulty PROVE FALSE
    OBVIOUS
  <1>1. IsFiniteSet(Voters) /\ IsFiniteSet(Faulty) /\ IsFiniteSet(Q)
    BY CollectorAssumption, FS_Subset
  <1>2. /\ Cardinality(Voters) \in Nat /\ Cardinality(Faulty) \in Nat
        /\ Cardinality(Q) \in Nat
    BY <1>1, FS_CardinalityType
  <1>3. Cardinality(Q) <= Cardinality(Faulty)
    BY <1>1, FS_Subset
  <1> QED
    BY <1>2, <1>3, CollectorAssumption

\* The length of an honest bitVote leaves only one set of known requests.
LEMMA AcceptedMeansAllKnown ==
    ASSUME ChainInv, ListenerInv, NEW v \in bitVotes, v.from \notin Faulty,
           ProcessBitVote(v)
    PROVE  RequestsOf(v.round, known) = RequestsOf(v.round, requests)
  <1> DEFINE A == RequestsOf(v.round, requests)
             K == RequestsOf(v.round, known)
  <1>1. requests \subseteq T0..now
    BY TimingAssumption DEF ChainInv
  <1>2. IsFiniteSet(T0..now)
    BY FS_Interval, TimingAssumption DEF ChainInv
  <1>3. IsFiniteSet(A)
    <2>1. A \in SUBSET (T0..now)
      BY <1>1 DEF RequestsOf
    <2> QED
      BY <1>2, <2>1, FS_Subset
  <1>4. K \in SUBSET A
    BY DEF RequestsOf, ListenerInv
  <1>5. Cardinality(A) = Cardinality(K)
    BY DEF ChainInv, Honest, ProcessBitVote
  <1> HIDE DEF A, K
  <1>6. A = K
    BY <1>3, <1>4, <1>5, FS_Subset
  <1> QED
    BY <1>6 DEF A, K

\* Once a round has all its requests nothing can be added: the round is over.
LEMMA AllKnownStable ==
    ASSUME ChainInv, ListenerInv, ListenerInv', [Next]_vars, ~Crash,
           NEW r \in Nat, ChooseStartTS(r) <= now,
           RequestsOf(r, known) = RequestsOf(r, requests)
    PROVE  RequestsOf(r, known)' = RequestsOf(r, requests)'
  <1>1. RequestsOf(r, requests') = RequestsOf(r, requests)
    <2>1. CASE RequestEmitted
      BY <2>1, OldRoundsFixed DEF RequestEmitted
    <2>2. CASE requests' = requests
      BY <2>2
    <2> QED
      BY <2>1, <2>2
         DEF Next, vars, chainVars, ChainNext, RequestNext, ChooseNext, ManagerNext,
             TimePasses, IndexerCatchesUp, BitVoteSubmitted, Run,
             AttestationRequestListenerStarts, AttestationRequestListener,
             SendRequests, PrepareChooseTriggerStarts, tryTriggerBitVote,
             SendTrigger, WaitForTick, BitVoteListener, SendBitVotes, OnRequests,
             OnBitVotes
  <1>2. known \subseteq known'
    BY DEF Next, vars, roundVars, ChainNext, RequestNext, ChooseNext, ManagerNext,
           TimePasses, IndexerCatchesUp, RequestEmitted, BitVoteSubmitted, Run,
           AttestationRequestListenerStarts, AttestationRequestListener,
           SendRequests, PrepareChooseTriggerStarts, tryTriggerBitVote,
           SendTrigger, WaitForTick, BitVoteListener, SendBitVotes, OnRequests,
           OnBitVotes
  <1>3. known' \subseteq requests'
    BY DEF ListenerInv
  <1>4. RequestsOf(r, known) \subseteq RequestsOf(r, known')
    BY <1>2 DEF RequestsOf
  <1>5. RequestsOf(r, known') \subseteq RequestsOf(r, requests')
    BY <1>3 DEF RequestsOf
  <1>6. RequestsOf(r, known') = RequestsOf(r, requests')
    BY <1>1, <1>4, <1>5
  <1> QED
    BY <1>6 DEF RequestsOf, RoundIDForTS

\* The rounds when a message with bitVotes is processed.
LEMMA OnBitVotesStep == Inv /\ ListenerInv' /\ OnBitVotes => CountInv'
  <1> SUFFICES ASSUME Inv, ListenerInv', OnBitVotes PROVE CountInv'
    OBVIOUS
  <1> USE DEF Inv
  <1> DEFINE m == Head(bvChan)
             r == m.id
             inTime == {v \in m.msgs : OnBitVote(v)}
             good == {v \in inTime : ProcessBitVote(v)}
             enough == 2 * Cardinality(VotersOf(r, counted')) > Cardinality(Voters)
  <1>1. /\ bvChan # <<>>
        /\ created' = created \cup {v.round : v \in inTime}
        /\ counted' = LatestOfEach(counted \cup good)
        /\ calc' = IF r \in created'
                   THEN [calc EXCEPT ![r] = IF enough THEN "ok" ELSE "failed"]
                   ELSE calc
        /\ UNCHANGED <<now, requests, bitVotes, known, next>>
    BY DEF OnBitVotes, chainVars, triggerVars
  <1>2. OnTheWay(r, m.msgs)
    <2>1. bvChan \in Seq(Messages)
      BY DEF ChooseInv
    <2>2. m = bvChan[1] /\ 1 \in 1..Len(bvChan)
      BY <1>1, <2>1
    <2> QED
      BY <2>2 DEF ChooseInv
  <1>3. r \in Nat /\ r < next /\ m.msgs \subseteq bitVotes /\ next \in Nat
    BY <1>2 DEF OnTheWay, ChooseInv
  <1>4. \A v \in inTime : v.round = r
    BY <1>2, <1>3, OneRound DEF OnTheWay, ChainInv
  <1>5. inTime # {} => r \in created' /\ r \in Rounds
    <2> SUFFICES ASSUME NEW v \in inTime PROVE r \in created' /\ r \in Rounds
      OBVIOUS
    <2>1. v.round = r /\ v \in BitVotes
      BY <1>3, <1>4 DEF ChainInv
    <2> QED
      BY <1>1, <2>1 DEF BitVotes
  <1> HIDE DEF m, r, enough
  <1>6. counted' \subseteq counted \cup good
    BY <1>1 DEF LatestOfEach
  <1>7. counted' \subseteq bitVotes
    BY <1>3, <1>6 DEF CountInv
  <1>8. calc' \in [Rounds -> {"no", "failed", "ok"}]
    BY <1>1 DEF CountInv
  <1>9. \A v \in counted' : v.from \notin Faulty =>
            RequestsOf(v.round, known) = RequestsOf(v.round, requests)
    <2> SUFFICES ASSUME NEW v \in counted', v.from \notin Faulty
                 PROVE  RequestsOf(v.round, known) = RequestsOf(v.round, requests)
      OBVIOUS
    <2>1. CASE v \in counted
      BY <2>1 DEF CountInv
    <2>2. CASE v \in good
      BY <2>2, <1>7, AcceptedMeansAllKnown
    <2> QED
      BY <2>1, <2>2, <1>6
  <1>10. NoForeignBitVotes'
    <2> SUFFICES ASSUME NEW v \in counted'
                 PROVE  v.round < next /\ calc'[v.round] # "no"
      BY <1>1 DEF NoForeignBitVotes
    <2>1. v.round \in Rounds
      BY <1>7 DEF ChainInv, BitVotes
    <2>2. CASE v \in counted
      <3>1. v.round < next /\ calc[v.round] # "no"
        BY <2>2 DEF CountInv, NoForeignBitVotes
      <3> QED
        BY <3>1, <2>1, <1>1 DEF CountInv
    <2>3. CASE v \in good
      <3>1. v.round = r /\ r \in created' /\ r \in Rounds
        BY <2>3, <1>4, <1>5
      <3> QED
        BY <3>1, <1>1, <1>3 DEF CountInv
    <2> QED
      BY <2>2, <2>3, <1>6
  <1>11. ASSUME NEW x \in Rounds, calc'[x] = "ok", calc[x] # "ok"
         PROVE  /\ ChooseStartTS(x) <= now
                /\ RequestsOf(x, known) = RequestsOf(x, requests)
    <2>1. x = r /\ enough
      BY <1>1, <1>11 DEF CountInv
    <2>2. VotersOf(r, counted') \in SUBSET Voters
      BY <1>7 DEF VotersOf, ChainInv, BitVotes
    <2>3. PICK f \in VotersOf(r, counted') : f \notin Faulty
      BY <2>1, <2>2, QuorumHasHonest DEF enough
    <2>4. PICK v \in counted' : v.round = r /\ v.from = f
      BY <2>3 DEF VotersOf
    <2>5. /\ v.ts \in Nat /\ v.ts <= now /\ now \in Nat
          /\ ChooseStartTS(r) <= v.ts
      BY <2>3, <2>4, <1>7, TimingAssumption DEF ChainInv, Honest, BitVotes, Times
    <2>6. ChooseStartTS(r) \in Nat
      BY <1>3, RoundStartType DEF ChooseStartTS
    <2> QED
      BY <2>1, <2>3, <2>4, <2>5, <2>6, <1>9
  <1>12. \A x \in Rounds : calc'[x] = "ok" =>
             /\ ChooseStartTS(x) <= now
             /\ RequestsOf(x, known) = RequestsOf(x, requests)
    BY <1>11 DEF CountInv, ConsensusOnAllRequests
  <1> QED
    BY <1>1, <1>7, <1>8, <1>9, <1>10, <1>12 DEF CountInv, ConsensusOnAllRequests,
                                                RequestsOf, RoundIDForTS

\* The rounds in all other steps.
LEMMA CountStep ==
    Inv /\ ChainInv' /\ ListenerInv' /\ [Next]_vars => CountInv'
  <1> SUFFICES ASSUME Inv, ChainInv', ListenerInv', [Next]_vars PROVE CountInv'
    OBVIOUS
  <1>1. CASE OnBitVotes
    BY <1>1, OnBitVotesStep
  <1>2. CASE Crash
    BY <1>2 DEF Crash, CountInv, NoForeignBitVotes, ConsensusOnAllRequests
  <1>3. CASE ~OnBitVotes /\ ~Crash
    <2>1. /\ counted' = counted /\ calc' = calc
          /\ bitVotes \subseteq bitVotes' /\ now \in Nat /\ now' \in Nat
          /\ now' = now \/ now' = now + 1
      BY <1>3 DEF Inv, ChainInv, Next, vars, roundVars, chainVars, ChainNext,
           RequestNext, ChooseNext,
           ManagerNext, TimePasses, IndexerCatchesUp, RequestEmitted,
           BitVoteSubmitted, Run, AttestationRequestListenerStarts,
           AttestationRequestListener, SendRequests, PrepareChooseTriggerStarts,
           tryTriggerBitVote, SendTrigger, WaitForTick, BitVoteListener,
           SendBitVotes, OnRequests
    <2>2. next' = next \/ next' = next + 1 \/ counted = {}
      BY <1>3 DEF Inv, ChooseInv, Next, vars, triggerVars, ChainNext, RequestNext,
           ChooseNext, ManagerNext, TimePasses, IndexerCatchesUp, RequestEmitted,
           BitVoteSubmitted, Run, AttestationRequestListenerStarts,
           AttestationRequestListener, SendRequests, PrepareChooseTriggerStarts,
           tryTriggerBitVote, SendTrigger, WaitForTick, BitVoteListener,
           SendBitVotes, OnRequests
    <2>3. /\ counted \subseteq bitVotes /\ bitVotes \subseteq BitVotes
          /\ next \in Nat
          /\ \A x \in Rounds : x \in Nat /\ ChooseStartTS(x) \in Nat
      <3>1. \A x \in Rounds : x \in Nat /\ x + 1 \in Nat
        BY DEF Rounds
      <3>2. \A x \in Rounds : ChooseStartTS(x) \in Nat
        BY <3>1, RoundStartType DEF ChooseStartTS
      <3> QED
        BY <3>1, <3>2 DEF Inv, CountInv, ChainInv, ChooseInv
    <2>4. NoForeignBitVotes'
      <3>1. \A v \in counted : v.round \in Nat /\ v.round < next
        BY <2>3 DEF Inv, CountInv, NoForeignBitVotes, BitVotes
      <3> QED
        BY <2>1, <2>2, <2>3, <3>1 DEF Inv, CountInv, NoForeignBitVotes
    <2>5. \A x \in Rounds : calc'[x] = "ok" =>
              /\ ChooseStartTS(x) <= now'
              /\ RequestsOf(x, known)' = RequestsOf(x, requests)'
      <3> SUFFICES ASSUME NEW x \in Rounds, calc[x] = "ok"
                   PROVE  /\ ChooseStartTS(x) <= now'
                          /\ RequestsOf(x, known)' = RequestsOf(x, requests)'
        BY <2>1
      <3>1. /\ ChooseStartTS(x) <= now
            /\ RequestsOf(x, known) = RequestsOf(x, requests)
        BY DEF Inv, CountInv, ConsensusOnAllRequests
      <3> QED
        BY <3>1, <1>3, <2>1, <2>3, AllKnownStable DEF Inv
    <2>6. ASSUME NEW v \in counted, v.from \notin Faulty
          PROVE  RequestsOf(v.round, known)' = RequestsOf(v.round, requests)'
      <3>1. /\ v.round \in Rounds /\ v.ts \in Nat /\ v.ts <= now
            /\ ChooseStartTS(v.round) <= v.ts
        BY <2>3, <2>6, TimingAssumption DEF Inv, ChainInv, Honest, BitVotes, Times
      <3>2. ChooseStartTS(v.round) <= now /\ v.round \in Nat
        BY <3>1, <2>1, <2>3
      <3>3. RequestsOf(v.round, known) = RequestsOf(v.round, requests)
        BY <2>6 DEF Inv, CountInv
      <3> QED
        BY <3>2, <3>3, <1>3, AllKnownStable DEF Inv
    <2>7. \A v \in counted' : v.from \notin Faulty =>
              RequestsOf(v.round, known)' = RequestsOf(v.round, requests)'
      BY <2>1, <2>6
    <2> QED
      BY <2>1, <2>3, <2>4, <2>5, <2>7
         DEF Inv, CountInv, ConsensusOnAllRequests
  <1> QED
    BY <1>1, <1>2, <1>3

-----------------------------------------------------------------------------
(* Theorems.                                                               *)

\* Inv holds in every reachable state of the collector and the manager.
THEOREM Invariance == Spec => []Inv
  <1>1. Inv /\ [Next]_vars => Inv'
    <2> SUFFICES ASSUME Inv, [Next]_vars PROVE Inv'
      OBVIOUS
    <2>1. ChainInv'
      BY ChainStep DEF Inv
    <2>2. ListenerInv'
      BY ListenerStep DEF Inv
    <2>3. ChooseInv'
      BY ChooseStep DEF Inv
    <2>4. CountInv'
      BY <2>1, <2>2, CountStep
    <2> QED
      BY <2>1, <2>2, <2>3, <2>4 DEF Inv
  <1> QED
    BY InitInv, <1>1, PTL DEF Spec

\* AttestationRequestListener loses no request and delivers none twice, for
\* any number of failed queries, any channel capacity and any crashes.
THEOREM RequestsDelivered == Spec => []RequestsExactlyOnce
  <1>1. Inv => RequestsExactlyOnce
    BY DEF Inv, ListenerInv
  <1> QED
    BY Invariance, <1>1, PTL

\* ProcessBitVote's check of the length: no consensus without all requests of
\* the round, as long as the faulty voters have no majority.
THEOREM ConsensusComplete == Spec => []ConsensusOnAllRequests
  <1>1. Inv => ConsensusOnAllRequests
    BY DEF Inv, CountInv
  <1> QED
    BY Invariance, <1>1, PTL

\* OnBitVote's checks of the time: bitVotes only get into the round whose
\* choose phase was reported, which is then computed in the same step.
THEOREM BitVotesInTurn == Spec => []NoForeignBitVotes
  <1>1. Inv => NoForeignBitVotes
    BY DEF Inv, CountInv
  <1> QED
    BY Invariance, <1>1, PTL

-----------------------------------------------------------------------------
(* Types: what Inv does not say yet.                                       *)

TypeInv ==
    /\ crashes \in 0..MaxCrashes
    /\ Len(reqChan) <= RequestsCap /\ Len(bvChan) <= BitVotesCap
    /\ tickAt \in Nat /\ tick \in BOOLEAN
    /\ bRound \in Nat
    /\ created \subseteq Rounds
    /\ seen \in [Rounds -> Nat]

\* The round of a timestamp that the model reaches is one of Rounds.
LEMMA RoundOfTime ==
    ASSUME NEW t \in Times
    PROVE  RoundIDForTS(t) \in Rounds
<1> DEFINE r == RoundIDForTS(t)
           q == RoundIDForTS(MaxTime)
<1>1. /\ t \in Nat /\ T0 <= t /\ t <= MaxTime
      /\ MaxTime \in Nat /\ T0 <= MaxTime /\ T0 \in Nat
  BY TimingAssumption, CollectorAssumption DEF Times
<1>2. /\ r \in Nat /\ q \in Nat
      /\ RoundStartTS(r) <= t /\ MaxTime < RoundStartTS(q + 1)
  BY <1>1, RoundOfTimestamp
<1> HIDE DEF r, q
<1>3. r <= q
  <2> SUFFICES ASSUME q < r PROVE FALSE
    BY <1>2
  <2>1. RoundStartTS(q + 1) <= RoundStartTS(r)
    <3>1. CASE q + 1 = r
      BY <1>2, <3>1, RoundStartType
    <3>2. CASE q + 1 < r
      BY <1>2, <3>2, RoundStartType, RoundStartMonotone, TimingAssumption
    <3> QED
      BY <1>2, <3>1, <3>2
  <2> QED
    BY <1>1, <1>2, <2>1, RoundStartType
<1> QED
  BY <1>2, <1>3 DEF Rounds, r, q

\* The bounds of a choose phase are times.
LEMMA ChooseType ==
    ASSUME NEW n \in Nat
    PROVE  ChooseStartTS(n) \in Nat /\ ChooseEndTS(n) \in Nat
<1>1. n + 1 \in Nat
  OBVIOUS
<1>2. ChooseStartTS(n) \in Nat
  BY <1>1, RoundStartType DEF ChooseStartTS
<1> QED
  BY <1>2, TimingAssumption DEF ChooseEndTS

\* The requests on their way were emitted.
LEMMA RequestsOnChain ==
    ASSUME Inv
    PROVE  /\ rOut \subseteq Times /\ known \subseteq Times
           /\ requests \subseteq Times
           /\ reqChan \in Seq(SUBSET Times)
<1>1. requests \subseteq Times
  BY TimingAssumption, CollectorAssumption DEF Inv, ChainInv, Times
<1>2. known \subseteq Times
  BY <1>1 DEF Inv, ListenerInv
<1>3. rOut \subseteq Times
  BY <1>1 DEF Inv, ListenerInv, RequestsExactlyOnce
<1>4. reqChan \in Seq(SUBSET Times)
  <2>1. CASE rPc \in {"off", "start"}
    BY <2>1 DEF Inv, ListenerInv
  <2>2. CASE rPc \in {"poll", "send"}
    <3>1. InChannel \subseteq Times
      BY <1>1, <2>2 DEF Inv, ListenerInv, RequestsExactlyOnce
    <3>2. \A i \in DOMAIN reqChan : reqChan[i] \in SUBSET Times
      BY <3>1 DEF InChannel, Content
    <3>3. reqChan \in Seq(SUBSET Nat)
      BY DEF Inv, ListenerInv
    <3> QED
      BY <3>2, <3>3
  <2> QED
    BY <2>1, <2>2 DEF Inv, ListenerInv
<1> QED
  BY <1>1, <1>2, <1>3, <1>4

\* One step.
LEMMA TypeStep == Inv /\ TypeInv /\ [Next]_vars => TypeInv'
<1> SUFFICES ASSUME Inv, TypeInv, [Next]_vars PROVE TypeInv'
  OBVIOUS
<1> USE DEF TypeInv
<1>1. CASE UNCHANGED <<crashes, reqChan, bvChan, tickVars, bRound, created, seen>>
  BY <1>1 DEF tickVars
<1>2. CASE TimePasses
  <2>1. now' = now + 1 /\ tickAt + CollectDurationSec \in Nat
    BY <1>2, TimingAssumption DEF TimePasses
  <2> QED
    BY <1>2, <2>1 DEF TimePasses, tickVars, bitVoteVars, roundVars
<1>3. CASE Crash
  <2>1. /\ crashes' \in 0..MaxCrashes
        /\ tickAt' = 0 /\ bRound' = 0 /\ created' = {}
        /\ reqChan' = <<>> /\ bvChan' = <<>>
        /\ seen' = [r \in Rounds |-> 0]
    BY <1>3, CollectorAssumption DEF Crash
  <2>2. Len(reqChan') = 0 /\ Len(bvChan') = 0 /\ seen' \in [Rounds -> Nat]
    BY <2>1
  <2>3. tick' \in BOOLEAN
    BY <1>3, Zenon DEF Crash
  <2> QED
    BY <2>1, <2>2, <2>3, CollectorAssumption
<1>4. CASE SendRequests
  <2>1. reqChan \in Seq(SUBSET Times) /\ rOut \in SUBSET Times
    BY RequestsOnChain
  <2>2. Len(Append(reqChan, rOut)) = Len(reqChan) + 1 /\ Len(reqChan) \in Nat
    BY <2>1
  <2> QED
    BY <1>4, <2>2, CollectorAssumption
    DEF SendRequests, tickVars, bitVoteVars, roundVars
<1>5. CASE PrepareChooseTriggerStarts
  <2>1. next' = NextChooseEnd(indexed) /\ next' \in Nat /\ now \in Nat
    BY <1>5, NextChooseEndIsNext DEF PrepareChooseTriggerStarts, Inv, ChainInv
  <2>2. ChooseEndTS(next') \in Nat
    BY <2>1, ChooseType
  <2>3. /\ tickAt' = CollectDurationSec +
                     (IF ChooseEndTS(next') <= now + HeadStart THEN now
                      ELSE ChooseEndTS(next') - HeadStart)
        /\ UNCHANGED <<crashes, reqChan, bvChan, tick, bRound, created, seen>>
    BY <1>5 DEF PrepareChooseTriggerStarts, bitVoteVars, roundVars
  <2>4. tickAt' \in Nat
    BY <2>1, <2>2, <2>3, TimingAssumption, CollectorAssumption
  <2> QED
    BY <2>3, <2>4
<1>6. CASE SendTrigger
  BY <1>6 DEF SendTrigger, tickVars, roundVars, Inv, ChooseInv
<1>7. CASE WaitForTick
  BY <1>7 DEF WaitForTick, bitVoteVars, roundVars
<1>8. CASE BitVoteListener
  BY <1>8 DEF BitVoteListener, tickVars, roundVars, Inv, ChainInv
<1>9. CASE SendBitVotes
  <2> DEFINE m == [id |-> bRound, msgs |-> bOut]
  <2>1. bvChan \in Seq(Messages) /\ m \in Messages
    BY <1>9 DEF Inv, ChainInv, ChooseInv, OnTheWay, Messages, SendBitVotes
  <2> HIDE DEF m
  <2>2. Len(Append(bvChan, m)) = Len(bvChan) + 1 /\ Len(bvChan) \in Nat
    BY <2>1
  <2> QED
    BY <1>9, <2>2, CollectorAssumption DEF SendBitVotes, tickVars, roundVars, m
<1>10. CASE OnRequests
  <2>1. reqChan \in Seq(SUBSET Times) /\ reqChan # <<>>
    BY <1>10, RequestsOnChain DEF OnRequests
  <2>2. /\ Len(Tail(reqChan)) = Len(reqChan) - 1 /\ Len(reqChan) \in Nat
        /\ Head(reqChan) \in SUBSET Times
    BY <2>1
  <2>3. {RoundIDForTS(t) : t \in Head(reqChan)} \subseteq Rounds
    BY <2>2, RoundOfTime
  <2> QED
    BY <1>10, <2>2, <2>3, CollectorAssumption DEF OnRequests, tickVars, bitVoteVars
<1>11. CASE OnBitVotes
  <2>1. bvChan \in Seq(Messages) /\ bvChan # <<>>
    BY <1>11 DEF OnBitVotes, Inv, ChooseInv
  <2>2. /\ Len(Tail(bvChan)) = Len(bvChan) - 1 /\ Len(bvChan) \in Nat
        /\ Head(bvChan) \in Messages
    BY <2>1
  <2>3. \A v \in Head(bvChan).msgs : v.round \in Rounds
    BY <2>2 DEF Messages, BitVotes
  <2>4. created' \subseteq Rounds
    BY <1>11, <2>3 DEF OnBitVotes
  <2> QED
    BY <1>11, <2>2, <2>4, CollectorAssumption DEF OnBitVotes, tickVars, bitVoteVars
<1> QED
  BY <1>1, <1>2, <1>3, <1>4, <1>5, <1>6, <1>7, <1>8, <1>9, <1>10, <1>11
  DEF Next, vars, tickVars, bitVoteVars, roundVars, ChainNext, RequestNext,
      ChooseNext, ManagerNext, IndexerCatchesUp, RequestEmitted,
      BitVoteSubmitted, Run, AttestationRequestListenerStarts,
      AttestationRequestListener, tryTriggerBitVote

\* The initial state.
LEMMA TypeInit == Init => TypeInv
<1> SUFFICES ASSUME Init PROVE TypeInv
  OBVIOUS
<1>1. Len(reqChan) = 0 /\ Len(bvChan) = 0 /\ seen \in [Rounds -> Nat]
  BY DEF Init
<1>2. tick \in BOOLEAN
  BY Zenon DEF Init
<1>3. crashes = 0 /\ tickAt = 0 /\ bRound = 0 /\ created = {}
  BY DEF Init
<1> QED
  BY <1>1, <1>2, <1>3, CollectorAssumption DEF TypeInv

\* The types of Collector, among them the capacities of both channels: the
\* listeners wait for room instead of dropping what they hold.
THEOREM TypeCorrect == Spec => []TypeOK
<1>1. Init => TypeInv
  BY TypeInit
<1>2. Inv /\ TypeInv => TypeOK
  <2> SUFFICES ASSUME Inv, TypeInv PROVE TypeOK
    OBVIOUS
  <2>1. now \in Times /\ indexed \in Nat /\ indexed < now + 1
    BY TimingAssumption, CollectorAssumption DEF Inv, ChainInv, Times
  <2>2. rFrom \in Nat /\ rLast \in Nat /\ next \in Nat
    BY DEF Inv, ListenerInv, ChooseInv
  <2>3. /\ bitVotes \subseteq BitVotes /\ bOut \subseteq BitVotes
        /\ counted \subseteq BitVotes
    BY DEF Inv, ChainInv, ChooseInv, CountInv, OnTheWay
  <2>4. bvChan \in Seq([id: Nat, msgs: SUBSET BitVotes])
    BY DEF Inv, ChooseInv, Messages
  <2> QED
    BY <2>1, <2>2, <2>3, <2>4, RequestsOnChain
    DEF TypeOK, TypeInv, Inv, ListenerInv, ChooseInv, CountInv
<1> QED
  BY <1>1, <1>2, TypeStep, Invariance, PTL DEF Spec

-----------------------------------------------------------------------------
(* Every round is served once.                                             *)

Busy == bPc \in {"fetch", "send"}

\* A round is with BitVoteListener, or in one message of the channel, or
\* computed, or none of these; never two of them.
OnceInv ==
    /\ Busy => next = bRound + 1
    /\ \A i, j \in 1..Len(bvChan) : i # j => bvChan[i].id # bvChan[j].id
    /\ Busy => \A i \in 1..Len(bvChan) : bvChan[i].id # bRound
    /\ \A r \in Rounds : calc[r] # "no" =>
          /\ r < next
          /\ Busy => r # bRound
          /\ \A i \in 1..Len(bvChan) : bvChan[i].id # r
          /\ tPc \notin {"off", "start"}

\* Steps that move no round.
LEMMA OnceKept ==
    ASSUME OnceInv, UNCHANGED <<next, bRound, bvChan, calc>>, Busy' => Busy,
           tPc' = tPc \/ tPc' \notin {"off", "start"}
    PROVE  OnceInv'
BY DEF OnceInv

\* A round moves on from BitVoteListener to the channel to the manager.
LEMMA OnceStep == Inv /\ TypeInv /\ OnceInv /\ [Next]_vars => OnceInv'
<1> SUFFICES ASSUME Inv, TypeInv, OnceInv, [Next]_vars PROVE OnceInv'
  OBVIOUS
<1>0. /\ \A r \in Rounds : r \in Nat
      /\ next \in Nat /\ bRound \in Nat /\ bvChan \in Seq(Messages)
      /\ \A i \in 1..Len(bvChan) : bvChan[i].id \in Nat /\ bvChan[i].id < next
      /\ tPc \in {"off", "start"} =>
            ~Busy /\ bvChan = <<>> /\ \A r \in Rounds : calc[r] = "no"
  BY DEF Inv, ChooseInv, TypeInv, OnTheWay, Rounds, OnceInv, Busy
<1>1. CASE \/ TimePasses \/ IndexerCatchesUp \/ RequestEmitted \/ BitVoteSubmitted
           \/ RequestNext \/ OnRequests \/ tryTriggerBitVote \/ WaitForTick
           \/ UNCHANGED vars
  <2>1. /\ UNCHANGED <<next, bPc, bRound, bvChan, calc>>
        /\ tPc' = tPc \/ tPc' \notin {"off", "start"}
    BY <1>1 DEF TimePasses, IndexerCatchesUp, RequestEmitted, BitVoteSubmitted,
                RequestNext, AttestationRequestListenerStarts,
                AttestationRequestListener, SendRequests, OnRequests,
                tryTriggerBitVote, WaitForTick, vars, triggerVars, bitVoteVars,
                roundVars
  <2> QED
    BY <2>1, OnceKept DEF Busy
<1>2. CASE BitVoteListener
  <2>1. /\ UNCHANGED <<next, bRound, bvChan, calc, tPc>>
        /\ Busy
    BY <1>2 DEF BitVoteListener, triggerVars, roundVars, Busy
  <2> QED
    BY <2>1, OnceKept
<1>3. CASE Run
  <2>1. /\ tPc = "off" /\ bPc' = "idle"
        /\ UNCHANGED <<next, bRound, bvChan, calc>>
    BY <1>3 DEF Run, Running, Inv, ListenerInv, ChooseInv, roundVars
  <2> QED
    BY <1>0, <2>1 DEF OnceInv, Busy
<1>4. CASE Crash
  <2>1. /\ bPc' = "off" /\ bvChan' = <<>> /\ \A r \in Rounds : calc'[r] = "no"
    BY <1>4 DEF Crash
  <2> QED
    BY <2>1 DEF OnceInv, Busy
<1>5. CASE PrepareChooseTriggerStarts
  <2>1. tPc = "start" /\ UNCHANGED <<bPc, bvChan, calc>>
    BY <1>5 DEF PrepareChooseTriggerStarts, bitVoteVars, roundVars
  <2> QED
    BY <1>0, <2>1 DEF OnceInv, Busy
<1>6. CASE SendTrigger
  <2>1. /\ bRound' = next /\ next' = next + 1 /\ tPc' = "wait"
        /\ UNCHANGED <<bvChan, calc>>
    BY <1>6 DEF SendTrigger, roundVars
  <2> QED
    BY <1>0, <2>1 DEF OnceInv
<1>7. CASE SendBitVotes
  <2> DEFINE m == [id |-> bRound, msgs |-> bOut]
  <2>1. /\ bPc = "send" /\ bPc' = "idle" /\ bvChan' = Append(bvChan, m)
        /\ UNCHANGED <<next, bRound, calc, tPc>>
    BY <1>7 DEF SendBitVotes, triggerVars, roundVars
  <2>2. m \in Messages
    BY <2>1 DEF Messages, Inv, ChainInv, ChooseInv, OnTheWay
  <2>3. m.id = bRound
    OBVIOUS
  <2> HIDE DEF m
  <2>4. /\ Len(bvChan') = Len(bvChan) + 1 /\ Len(bvChan) \in Nat
        /\ \A i \in 1..Len(bvChan) : bvChan'[i] = bvChan[i]
        /\ bvChan'[Len(bvChan) + 1] = m
    BY <1>0, <2>1, <2>2, AppendProperties
  <2>5. \A i \in 1..Len(bvChan') : i \in 1..Len(bvChan) \/ i = Len(bvChan) + 1
    BY <2>4
  <2>6. Busy
    BY <2>1 DEF Busy
  <2>7. ~Busy'
    BY <2>1 DEF Busy
  <2>8. ASSUME NEW r \in Rounds, calc[r] # "no", NEW i \in 1..Len(bvChan')
        PROVE  bvChan'[i].id # r
    BY <2>3, <2>4, <2>5, <2>6, <2>8 DEF OnceInv
  <2>9. ASSUME NEW i \in 1..Len(bvChan'), NEW j \in 1..Len(bvChan'), i # j
        PROVE  bvChan'[i].id # bvChan'[j].id
    BY <2>3, <2>4, <2>5, <2>6, <2>9 DEF OnceInv
  <2> QED
    BY <2>1, <2>7, <2>8, <2>9 DEF OnceInv
<1>8. CASE OnBitVotes
  <2>1. /\ bvChan # <<>> /\ bvChan' = Tail(bvChan)
        /\ UNCHANGED <<next, bPc, bRound, tPc>>
        /\ \A r \in Rounds : calc'[r] # "no" =>
              calc[r] # "no" \/ r = Head(bvChan).id
    BY <1>8 DEF OnBitVotes, triggerVars, bitVoteVars, Inv, CountInv
  <2>2. /\ Len(bvChan') = Len(bvChan) - 1 /\ Len(bvChan) \in Nat
        /\ \A i \in 1..Len(bvChan') : bvChan'[i] = bvChan[i + 1]
        /\ Head(bvChan) = bvChan[1] /\ 1 \in 1..Len(bvChan)
    BY <1>0, <2>1, HeadTailProperties
  <2>3. \A i \in 1..Len(bvChan') : i + 1 \in 1..Len(bvChan) /\ i + 1 # 1
    BY <2>2
  <2>4. tPc \notin {"off", "start"}
    BY <1>0, <2>1
  <2>5. ASSUME NEW r \in Rounds, calc'[r] # "no"
        PROVE  /\ r < next /\ (Busy => r # bRound)
               /\ \A i \in 1..Len(bvChan') : bvChan'[i].id # r
    BY <1>0, <2>1, <2>2, <2>3, <2>5 DEF OnceInv
  <2>6. \A i, j \in 1..Len(bvChan') : i # j => bvChan'[i].id # bvChan'[j].id
    <3>1. \A i, j \in 1..Len(bvChan') : i # j => i + 1 # j + 1
      BY <2>2
    <3> QED
      BY <2>2, <2>3, <3>1 DEF OnceInv
  <2>7. Busy => next = bRound + 1 /\ \A i \in 1..Len(bvChan') : bvChan'[i].id # bRound
    BY <2>2, <2>3 DEF OnceInv
  <2> QED
    BY <2>1, <2>4, <2>5, <2>6, <2>7 DEF OnceInv, Busy
<1> QED
  BY <1>1, <1>2, <1>3, <1>4, <1>5, <1>6, <1>7, <1>8
  DEF Next, ChainNext, ChooseNext, ManagerNext

-----------------------------------------------------------------------------
(* What is read in time is all there is.                                   *)

\* All that can be read for round r once its choose phase is over.
WindowOf(r) == {v \in bitVotes : InWindow(v, r)}

ReadInTime(r) == seen[r] >= ChooseEndTS(r)

\* The bitVotes that the round r should count, and the last one of each voter.
ValidVotes(r) ==
    {v \in bitVotes : /\ v.round = r
                      /\ ChooseStartTS(r) <= v.ts /\ v.ts < ChooseEndTS(r)
                      /\ v.len = Cardinality(RequestsOf(r, requests))}

LastValidVotes(r) ==
    {v \in ValidVotes(r) :
        \A w \in ValidVotes(r) : w.from = v.from => w.ts <= v.ts}

\* A round that was read in time has all of its window on the way, and in the
\* end all its valid bitVotes.
SeenInv ==
    \A r \in Rounds :
        /\ seen[r] <= indexed
        /\ bPc = "send" /\ bRound = r /\ ReadInTime(r) => bOut = WindowOf(r)
        /\ \A i \in 1..Len(bvChan) :
              bvChan[i].id = r /\ ReadInTime(r) => bvChan[i].msgs = WindowOf(r)
        /\ calc[r] = "ok" /\ ReadInTime(r) =>
              {v \in counted : v.round = r} = LastValidVotes(r)

\* A bitVote that is submitted now is later than any choose phase that the
\* database has passed.
LEMMA WindowStable ==
    ASSUME Inv, NEW r \in Rounds, ChooseEndTS(r) <= indexed,
           bitVotes' = bitVotes \/ BitVoteSubmitted
    PROVE  /\ WindowOf(r)' = WindowOf(r)
           /\ RequestsOf(r, requests)' = RequestsOf(r, requests) =>
                 ValidVotes(r)' = ValidVotes(r)
<1>1. /\ r \in Nat /\ ChooseEndTS(r) \in Nat /\ ChooseStartTS(r) \in Nat
      /\ indexed \in Nat /\ now \in Nat
  BY ChooseType DEF Rounds, Inv, ChainInv
<1>2. /\ bitVotes \subseteq bitVotes'
      /\ \A v \in bitVotes' : v \in bitVotes \/ ~(v.ts < ChooseEndTS(r))
  <2>1. CASE bitVotes' = bitVotes
    BY <2>1
  <2>2. CASE BitVoteSubmitted
    <3>1. PICK f \in Voters, q \in Rounds, l \in 0..MaxRequests :
              bitVotes' = bitVotes \cup
                  {[from |-> f, ts |-> now, round |-> q, len |-> l]}
      BY <2>2 DEF BitVoteSubmitted
    <3>2. indexed < now
      BY <2>2 DEF BitVoteSubmitted
    <3> QED
      BY <1>1, <3>1, <3>2
  <2> QED
    BY <2>1, <2>2
<1>3. \A v \in bitVotes' : v \in bitVotes \/ v.ts \in Nat
  <2>1. CASE bitVotes' = bitVotes
    BY <2>1
  <2>2. CASE BitVoteSubmitted
    BY <1>1, <2>2 DEF BitVoteSubmitted
  <2> QED
    BY <2>1, <2>2
<1>4. \A v \in bitVotes' : InWindow(v, r) => v \in bitVotes
  BY <1>1, <1>2, <1>3 DEF InWindow
<1>5. WindowOf(r)' = WindowOf(r)
  BY <1>2, <1>4 DEF WindowOf, InWindow
<1>6. ASSUME RequestsOf(r, requests)' = RequestsOf(r, requests)
      PROVE  ValidVotes(r)' = ValidVotes(r)
  BY <1>2, <1>6 DEF ValidVotes
<1> QED
  BY <1>5, <1>6

\* Steps that read, send and count no bitVotes.
LEMMA SeenKept ==
    ASSUME Inv, TypeInv, SeenInv,
           UNCHANGED <<seen, bvChan, counted, calc>>,
           bPc' # "send" \/ UNCHANGED <<bPc, bRound, bOut>>,
           indexed' \in Nat, indexed <= indexed',
           bitVotes' = bitVotes \/ BitVoteSubmitted,
           \A r \in Rounds : calc[r] = "ok" =>
               RequestsOf(r, requests)' = RequestsOf(r, requests)
    PROVE  SeenInv'
<1> SUFFICES ASSUME NEW r \in Rounds
             PROVE  /\ seen'[r] <= indexed'
                    /\ bPc' = "send" /\ bRound' = r /\ ReadInTime(r)'
                          => bOut' = WindowOf(r)'
                    /\ \A i \in 1..Len(bvChan') :
                          bvChan'[i].id = r /\ ReadInTime(r)'
                              => bvChan'[i].msgs = WindowOf(r)'
                    /\ calc'[r] = "ok" /\ ReadInTime(r)' =>
                          {v \in counted' : v.round = r} = LastValidVotes(r)'
  BY DEF SeenInv
<1>1. /\ seen[r] \in Nat /\ indexed \in Nat /\ seen[r] <= indexed
      /\ ChooseEndTS(r) \in Nat
  <2>1. seen[r] \in Nat /\ r \in Nat
    BY DEF TypeInv, Rounds
  <2>2. seen[r] <= indexed
    BY DEF SeenInv
  <2>3. indexed \in Nat
    BY DEF Inv, ChainInv
  <2> QED
    BY <2>1, <2>2, <2>3, ChooseType
<1>2. seen'[r] <= indexed'
  BY <1>1
<1>3. ReadInTime(r)' <=> ReadInTime(r)
  BY DEF ReadInTime
<1>4. CASE ~ReadInTime(r)
  BY <1>2, <1>3, <1>4
<1>5. CASE ReadInTime(r)
  <2>1. ChooseEndTS(r) <= indexed
    BY <1>1, <1>5 DEF ReadInTime
  <2>2. WindowOf(r)' = WindowOf(r)
    BY <2>1, WindowStable
  <2>3. calc[r] = "ok" => LastValidVotes(r)' = LastValidVotes(r)
    BY <2>1, WindowStable DEF LastValidVotes
  <2> QED
    BY <1>2, <1>5, <2>2, <2>3 DEF SeenInv
<1> QED
  BY <1>4, <1>5

\* BitVoteListener reads a round of which nothing is on its way yet.
LEMMA SeenRead ==
    ASSUME Inv, TypeInv, OnceInv, SeenInv, BitVoteListener
    PROVE  SeenInv'
<1> DEFINE got == {v \in bitVotes : InWindow(v, bRound) /\ v.ts <= indexed}
<1>1. /\ bPc = "fetch" /\ Busy
      /\ UNCHANGED <<bitVotes, requests, indexed, bRound, bvChan, counted, calc>>
      /\ bPc' = "send" => bOut' = got
      /\ \A r \in Rounds : seen'[r] = IF r = bRound THEN indexed ELSE seen[r]
  BY DEF BitVoteListener, chainVars, roundVars, Busy, TypeInv
<1>2. indexed \in Nat
  BY DEF Inv, ChainInv
<1> SUFFICES ASSUME NEW r \in Rounds
             PROVE  /\ seen'[r] <= indexed
                    /\ bPc' = "send" /\ bRound = r /\ ReadInTime(r)'
                          => bOut' = WindowOf(r)
                    /\ \A i \in 1..Len(bvChan) :
                          bvChan[i].id = r /\ ReadInTime(r)'
                              => bvChan[i].msgs = WindowOf(r)
                    /\ calc[r] = "ok" /\ ReadInTime(r)' =>
                          {v \in counted : v.round = r} = LastValidVotes(r)
  BY <1>1 DEF SeenInv, WindowOf, InWindow, LastValidVotes, ValidVotes, RequestsOf,
              RoundIDForTS
<1>3. CASE r # bRound
  BY <1>1, <1>3 DEF SeenInv, ReadInTime
<1>4. CASE r = bRound
  <2>1. /\ calc[r] = "no" /\ \A i \in 1..Len(bvChan) : bvChan[i].id # r
    BY <1>1, <1>4 DEF OnceInv
  <2>2. seen'[r] = indexed
    BY <1>1, <1>4
  <2>3. ReadInTime(r)' => got = WindowOf(r)
    <3> SUFFICES ASSUME indexed >= ChooseEndTS(r)
                 PROVE  \A v \in bitVotes : InWindow(v, r) => v.ts <= indexed
      BY <1>4, <2>2 DEF ReadInTime, WindowOf
    <3>1. ChooseEndTS(r) \in Nat
      BY ChooseType DEF Rounds
    <3>2. \A v \in bitVotes : v.ts \in Nat
      BY TimingAssumption DEF Inv, ChainInv, BitVotes, Times
    <3> QED
      BY <1>2, <3>1, <3>2 DEF InWindow
  <2>4. seen'[r] <= indexed
    BY <1>2, <2>2
  <2> HIDE DEF got
  <2> QED
    BY <1>1, <2>1, <2>3, <2>4
<1> QED
  BY <1>3, <1>4

\* SendBitVotes puts the message behind the others.
LEMMA SeenSent ==
    ASSUME Inv, TypeInv, SeenInv, SendBitVotes
    PROVE  SeenInv'
<1> DEFINE m == [id |-> bRound, msgs |-> bOut]
<1>1. /\ bPc = "send" /\ bPc' = "idle" /\ bvChan' = Append(bvChan, m)
      /\ UNCHANGED <<bitVotes, requests, indexed, seen, counted, calc>>
  BY DEF SendBitVotes, chainVars, roundVars
<1>2. m \in Messages /\ bvChan \in Seq(Messages)
  BY <1>1 DEF Messages, Inv, ChainInv, ChooseInv, OnTheWay
<1>3. m.id = bRound /\ m.msgs = bOut
  OBVIOUS
<1> HIDE DEF m
<1>4. /\ Len(bvChan') = Len(bvChan) + 1 /\ Len(bvChan) \in Nat
      /\ \A i \in 1..Len(bvChan) : bvChan'[i] = bvChan[i]
      /\ bvChan'[Len(bvChan) + 1] = m
  BY <1>1, <1>2, AppendProperties
<1>5. \A i \in 1..Len(bvChan') : i \in 1..Len(bvChan) \/ i = Len(bvChan) + 1
  BY <1>4
<1>6. ASSUME NEW r \in Rounds, ReadInTime(r), NEW i \in 1..Len(bvChan'),
             bvChan'[i].id = r
      PROVE  bvChan'[i].msgs = WindowOf(r)
  BY <1>1, <1>3, <1>4, <1>5, <1>6 DEF SeenInv
<1> QED
  BY <1>1, <1>6 DEF SeenInv, ReadInTime, WindowOf, InWindow, LastValidVotes,
                    ValidVotes, RequestsOf, RoundIDForTS

\* The manager takes the message of a round that has counted nothing yet.
LEMMA SeenCounted ==
    ASSUME Inv, Inv', TypeInv, OnceInv, SeenInv, OnBitVotes
    PROVE  SeenInv'
<1> DEFINE m == Head(bvChan)
           q == m.id
           good == {v \in m.msgs : OnBitVote(v) /\ ProcessBitVote(v)}
<1>1. /\ bvChan # <<>> /\ bvChan' = Tail(bvChan)
      /\ counted' = LatestOfEach(counted \cup good)
      /\ \A r \in Rounds : r # q => calc'[r] = calc[r]
      /\ UNCHANGED <<bitVotes, requests, known, indexed, seen, bPc, bRound, bOut>>
  <2>1. /\ bvChan # <<>> /\ bvChan' = Tail(bvChan)
        /\ \A r \in Rounds : r # q => calc'[r] = calc[r]
        /\ UNCHANGED <<bitVotes, requests, known, indexed, seen, bPc, bRound, bOut>>
    BY DEF OnBitVotes, chainVars, bitVoteVars, Inv, CountInv
  <2>2. good = {v \in {w \in m.msgs : OnBitVote(w)} : ProcessBitVote(v)}
    OBVIOUS
  <2>3. counted' = LatestOfEach(
            counted \cup {v \in {w \in m.msgs : OnBitVote(w)} : ProcessBitVote(v)})
    BY DEF OnBitVotes
  <2> QED
    BY <2>1, <2>2, <2>3
<1>2. /\ Len(bvChan') = Len(bvChan) - 1 /\ Len(bvChan) \in Nat
      /\ \A i \in 1..Len(bvChan') : bvChan'[i] = bvChan[i + 1]
      /\ m = bvChan[1] /\ 1 \in 1..Len(bvChan)
  BY <1>1, HeadTailProperties DEF Inv, ChooseInv
<1>3. \A i \in 1..Len(bvChan') : i + 1 \in 1..Len(bvChan)
  BY <1>2
<1>4. /\ q \in Nat /\ m.msgs \subseteq bitVotes /\ bitVotes \subseteq BitVotes
      /\ \A v \in m.msgs : InWindow(v, q)
  BY <1>2 DEF Inv, ChainInv, ChooseInv, OnTheWay
<1>5. \A v \in good : v.round = q
  BY <1>4, OneRound
<1> HIDE DEF m, q
<1>6. ASSUME NEW r \in Rounds, NEW i \in 1..Len(bvChan'),
             bvChan'[i].id = r, ReadInTime(r)
      PROVE  bvChan'[i].msgs = WindowOf(r)
  BY <1>2, <1>3, <1>6 DEF SeenInv
<1>7. ASSUME NEW r \in Rounds, calc'[r] = "ok", ReadInTime(r), r # q
      PROVE  {v \in counted' : v.round = r} = LastValidVotes(r)
  <2> DEFINE C == {v \in counted : v.round = r}
  <2>1. C = LastValidVotes(r)
    BY <1>1, <1>7 DEF SeenInv
  <2>2. \A v, w \in C : w.from = v.from => w.ts <= v.ts
    BY <2>1 DEF LastValidVotes
  <2>3. {v \in counted' : v.round = r} = C
    BY <1>1, <1>5, <1>7, <2>2 DEF LatestOfEach
  <2> QED
    BY <2>1, <2>3
<1>8. ASSUME q \in Rounds, calc'[q] = "ok", ReadInTime(q)
      PROVE  {v \in counted' : v.round = q} = LastValidVotes(q)
  <2>1. calc[q] = "no"
    BY <1>2, <1>8 DEF OnceInv, q
  <2>2. \A v \in counted : v.round # q
    BY <2>1 DEF Inv, CountInv, NoForeignBitVotes
  <2>3. m.msgs = WindowOf(q)
    BY <1>2, <1>8 DEF SeenInv, q
  <2>4. RequestsOf(q, known) = RequestsOf(q, requests)
    <3>1. ConsensusOnAllRequests'
      BY DEF Inv, CountInv
    <3>2. \A r \in Rounds : calc'[r] = "ok" =>
              RequestsOf(r, known') = RequestsOf(r, requests')
      BY <3>1 DEF ConsensusOnAllRequests, RequestsOf, RoundIDForTS
    <3> QED
      BY <1>1, <1>8, <3>2
  <2>5. good = ValidVotes(q)
    <3>1. \A v \in bitVotes : v.ts \in Nat
      BY TimingAssumption DEF Inv, ChainInv, BitVotes, Times
    <3>2. ChooseStartTS(q) \in Nat /\ ChooseEndTS(q) \in Nat
      BY <1>4, ChooseType
    <3>3. \A v \in bitVotes : InWindow(v, q) <=>
              ChooseStartTS(q) <= v.ts /\ v.ts < ChooseEndTS(q)
      BY <3>1, <3>2 DEF InWindow
    <3>4. \A v \in bitVotes : v.round = q =>
              (ProcessBitVote(v) <=> v.len = Cardinality(RequestsOf(q, requests)))
      BY <2>4 DEF ProcessBitVote
    <3>5. \A v \in bitVotes : v.round = q /\ InWindow(v, q) => OnBitVote(v)
      BY <3>3 DEF OnBitVote
    <3>6. ASSUME NEW v \in good PROVE v \in ValidVotes(q)
      BY <1>4, <1>5, <3>3, <3>4 DEF ValidVotes
    <3>7. ASSUME NEW v \in ValidVotes(q) PROVE v \in good
      BY <2>3, <3>3, <3>4, <3>5 DEF ValidVotes, WindowOf
    <3> QED
      BY <3>6, <3>7
  <2>6. {v \in counted' : v.round = q} = LastValidVotes(q)
    <3>1. \A v \in ValidVotes(q) : v.round = q
      BY DEF ValidVotes
    <3>2. counted' = LatestOfEach(counted \cup ValidVotes(q))
      BY <1>1, <2>5
    <3> QED
      BY <2>2, <3>1, <3>2 DEF LatestOfEach, LastValidVotes
  <2> QED
    BY <2>6
<1>9. ASSUME NEW r \in Rounds, calc'[r] = "ok", ReadInTime(r)
      PROVE  {v \in counted' : v.round = r} = LastValidVotes(r)
  BY <1>7, <1>8, <1>9
<1> QED
  BY <1>1, <1>6, <1>9 DEF SeenInv, ReadInTime, WindowOf, InWindow, LastValidVotes,
                          ValidVotes, RequestsOf, RoundIDForTS

\* One step.
LEMMA SeenStep ==
    Inv /\ Inv' /\ TypeInv /\ OnceInv /\ SeenInv /\ [Next]_vars => SeenInv'
<1> SUFFICES ASSUME Inv, Inv', TypeInv, OnceInv, SeenInv, [Next]_vars PROVE SeenInv'
  OBVIOUS
<1>1. CASE BitVoteListener
  BY <1>1, SeenRead
<1>2. CASE SendBitVotes
  BY <1>2, SeenSent
<1>3. CASE OnBitVotes
  BY <1>3, SeenCounted
<1>4. CASE Crash
  <2>1. /\ bPc' = "off" /\ bvChan' = <<>> /\ \A r \in Rounds : calc'[r] = "no"
        /\ \A r \in Rounds : seen'[r] = 0
        /\ indexed' = indexed
    BY <1>4 DEF Crash, chainVars
  <2>2. 0 <= indexed
    BY DEF Inv, ChainInv
  <2> QED
    BY <2>1, <2>2 DEF SeenInv
<1>5. CASE \/ TimePasses \/ IndexerCatchesUp \/ RequestEmitted \/ BitVoteSubmitted
           \/ Run \/ RequestNext \/ OnRequests \/ PrepareChooseTriggerStarts
           \/ tryTriggerBitVote \/ SendTrigger \/ WaitForTick \/ UNCHANGED vars
  <2>1. /\ UNCHANGED <<seen, bvChan, counted, calc>>
        /\ bPc' # "send" \/ UNCHANGED <<bPc, bRound, bOut>>
        /\ bitVotes' = bitVotes \/ BitVoteSubmitted
        /\ requests' = requests \/ RequestEmitted
    BY <1>5 DEF TimePasses, IndexerCatchesUp, RequestEmitted, BitVoteSubmitted,
                Run, RequestNext, AttestationRequestListenerStarts,
                AttestationRequestListener, SendRequests, OnRequests,
                PrepareChooseTriggerStarts, tryTriggerBitVote, SendTrigger,
                WaitForTick, vars, bitVoteVars, roundVars, chainVars
  <2>2. indexed' \in Nat /\ indexed <= indexed'
    <3>1. indexed \in Nat /\ indexed' \in Nat
      BY DEF Inv, ChainInv
    <3>2. indexed' = indexed \/ IndexerCatchesUp
      BY <1>5 DEF TimePasses, RequestEmitted, BitVoteSubmitted,
                Run, RequestNext, AttestationRequestListenerStarts,
                AttestationRequestListener, SendRequests, OnRequests,
                PrepareChooseTriggerStarts, tryTriggerBitVote, SendTrigger,
                WaitForTick, vars, chainVars
    <3> QED
      BY <3>1, <3>2 DEF IndexerCatchesUp, Inv, ChainInv
  <2>3. ASSUME NEW r \in Rounds, calc[r] = "ok"
        PROVE  RequestsOf(r, requests)' = RequestsOf(r, requests)
    <3>1. r \in Nat /\ ChooseStartTS(r) <= now
      BY <2>3 DEF Inv, CountInv, Rounds
    <3>2. RequestsOf(r, requests') = RequestsOf(r, requests)
      BY <2>1, <3>1, OldRoundsFixed DEF RequestEmitted, Inv
    <3> QED
      BY <3>2 DEF RequestsOf, RoundIDForTS
  <2> QED
    BY <2>1, <2>2, <2>3, SeenKept
<1> QED
  BY <1>1, <1>2, <1>3, <1>4, <1>5 DEF Next, ChainNext, ChooseNext, ManagerNext

\* A round whose bitVotes were read after its choose phase has the last valid
\* bitVote of every voter: BitVoteListener's query, its message and OnBitVote
\* lose none, and none comes late.
THEOREM VotesCounted == Spec => []AllBitVotesCounted
<1>1. Init => TypeInv /\ OnceInv /\ SeenInv
  <2> SUFFICES ASSUME Init PROVE OnceInv /\ SeenInv
    BY TypeInit
  <2> QED
    BY DEF Init, OnceInv, SeenInv, Busy
<1>2. Inv /\ Inv' /\ TypeInv /\ OnceInv /\ SeenInv /\ [Next]_vars
         => TypeInv' /\ OnceInv' /\ SeenInv'
  BY TypeStep, OnceStep, SeenStep
<1>3. SeenInv => AllBitVotesCounted
  BY DEF SeenInv, AllBitVotesCounted, ReadInTime, LastValidVotes, ValidVotes
<1> QED
  BY <1>1, <1>2, <1>3, Invariance, PTL DEF Spec

=============================================================================
