------------------------------ MODULE Collector ------------------------------
(***************************************************************************)
(* How requests and bitVotes get from the chain into the rounds.           *)
(*                                                                         *)
(* The chain is written by others and read through the database of an      *)
(* indexer that lags behind.  Three goroutines of the collector poll it    *)
(* (client/collector): AttestationRequestListener sends new requests to    *)
(* the requests channel; PrepareChooseTrigger waits until a choose phase   *)
(* is over and hands its round to BitVoteListener, which sends the round's *)
(* bitVotes to the bitVotes channel.  The manager (client/manager) takes   *)
(* from either channel, whichever it likes, and fills the rounds.  The     *)
(* client may crash; everything but the chain is lost then.                *)
(*                                                                         *)
(* Time advances in seconds; every second has a block, the block number is *)
(* its timestamp.  A request is the timestamp of its block.  A bitVote is  *)
(* reduced to what decides whether it is accepted: voter, time, round and  *)
(* length.  A signing policy for every round is assumed to be there.       *)
(***************************************************************************)
EXTENDS Timing, FiniteSets, Sequences

CONSTANTS
    Voters,       \* voters of the signing policy, of equal weight
    Faulty,       \* voters whose bitVotes may be anything
    OffChain,     \* bitVoteOffChainTriggerSeconds
    HeadStart,    \* bitVoteHeadStart
    Tolerance,    \* outOfSyncTolerance
    RequestsCap,  \* requestsBufferSize
    BitVotesCap,  \* bitVoteBufferSize
    QueriesFail,  \* whether database queries of the listeners may fail
    MaxTime,      \* bound on time
    MaxRequests,  \* bound on the number of requests on the chain
    MaxVotes,     \* bound on the number of bitVotes on the chain
    MaxCrashes    \* bound on the number of crashes

\* The faulty voters and those that do not vote are no majority.
ASSUME CollectorAssumption ==
    /\ IsFiniteSet(Voters) /\ Faulty \subseteq Voters
    /\ 2 * Cardinality(Faulty) <= Cardinality(Voters)
    /\ OffChain \in Nat /\ HeadStart \in Nat /\ Tolerance \in Nat
    /\ RequestsCap \in Nat \ {0} /\ BitVotesCap \in Nat \ {0}
    /\ QueriesFail \in BOOLEAN
    /\ MaxTime \in Nat /\ MaxRequests \in Nat /\ MaxVotes \in Nat
    /\ MaxCrashes \in Nat
    /\ MaxTime >= T0

Times == T0..MaxTime
Rounds == 0..RoundIDForTS(MaxTime)

BitVotes == [from: Voters, ts: Times, round: Rounds, len: 0..MaxRequests]

VARIABLES
    now,        \* local time and timestamp of the block being produced
    indexed,    \* the last block in the database
    requests,   \* blocks with an attestation request
    bitVotes,   \* bitVotes on the chain
    crashes,    \* number of crashes so far
    rPc,        \* AttestationRequestListener: "off", "start", "poll", "send"
    rFrom,      \* history: the first block its queries cover
    rLast,      \* lastQueriedBlock
    rOut,       \* requests it is about to send
    reqChan,    \* channel Requests
    tPc,        \* PrepareChooseTrigger: "off", "start", "poll", "send", "wait"
    next,       \* nextChoosePhaseRoundIDEnd
    tickAt,     \* when bitVoteTicker fires next
    tick,       \* a tick waits in its channel, which holds at most one
    bPc,        \* BitVoteListener: "off", "idle", "fetch", "send"
    bRound,     \* the round it serves
    bOut,       \* bitVotes it is about to send
    bvChan,     \* channel BitVotes
    created,    \* rounds stored in Manager.Rounds
    known,      \* requests added to the rounds
    counted,    \* Round.bitVotes of all rounds
    calc,       \* consensus of a round: "no", "failed", "ok"
    seen        \* history: database time at which the round's bitVotes were read

chainVars   == <<now, indexed, requests, bitVotes>>
requestVars == <<rPc, rFrom, rLast, rOut>>
triggerVars == <<tPc, next>>
tickVars    == <<tickAt, tick>>
bitVoteVars == <<bPc, bRound, bOut>>
roundVars   == <<created, known, counted, calc>>
vars == <<chainVars, crashes, requestVars, reqChan, triggerVars, tickVars,
          bitVoteVars, bvChan, roundVars, seen>>

TypeOK ==
    /\ now \in Times
    /\ indexed \in Nat /\ indexed < now + 1
    /\ requests \subseteq Times
    /\ bitVotes \subseteq BitVotes
    /\ crashes \in 0..MaxCrashes
    /\ rPc \in {"off", "start", "poll", "send"}
    /\ rFrom \in Nat /\ rLast \in Nat
    /\ rOut \subseteq Times
    /\ reqChan \in Seq(SUBSET Times) /\ Len(reqChan) <= RequestsCap
    /\ tPc \in {"off", "start", "poll", "send", "wait"}
    /\ next \in Nat
    /\ tickAt \in Nat /\ tick \in BOOLEAN
    /\ bPc \in {"off", "idle", "fetch", "send"}
    /\ bRound \in Nat
    /\ bOut \subseteq BitVotes
    /\ bvChan \in Seq([id: Nat, msgs: SUBSET BitVotes])
    /\ Len(bvChan) <= BitVotesCap
    /\ created \subseteq Rounds
    /\ known \subseteq Times
    /\ counted \subseteq BitVotes
    /\ calc \in [Rounds -> {"no", "failed", "ok"}]
    /\ seen \in [Rounds -> Nat]

Running == rPc # "off"

-----------------------------------------------------------------------------
Init ==
    /\ now = T0
    /\ indexed = 0
    /\ requests = {} /\ bitVotes = {}
    /\ crashes = 0
    /\ rPc = "off" /\ rFrom = 0 /\ rLast = 0 /\ rOut = {} /\ reqChan = <<>>
    /\ tPc = "off" /\ next = 0 /\ tickAt = 0 /\ tick = FALSE
    /\ bPc = "off" /\ bRound = 0 /\ bOut = {} /\ bvChan = <<>>
    /\ created = {} /\ known = {} /\ counted = {}
    /\ calc = [r \in Rounds |-> "no"]
    /\ seen = [r \in Rounds |-> 0]

-----------------------------------------------------------------------------
(* The chain, the indexer and time.                                        *)

\* A ticker drops a tick when the previous one was not taken.
TimePasses ==
    /\ now < MaxTime
    /\ now' = now + 1
    /\ IF tPc \notin {"off", "start"} /\ tickAt <= now'
       THEN tick' = TRUE /\ tickAt' = tickAt + CollectDurationSec
       ELSE UNCHANGED tickVars
    /\ UNCHANGED <<indexed, requests, bitVotes, crashes, requestVars, reqChan,
                   triggerVars, bitVoteVars, bvChan, roundVars, seen>>

IndexerCatchesUp ==
    /\ indexed < now
    /\ \E t \in (indexed + 1)..now : indexed' = t
    /\ UNCHANGED <<now, requests, bitVotes, crashes, requestVars, reqChan,
                   triggerVars, tickVars, bitVoteVars, bvChan, roundVars, seen>>

RequestEmitted ==
    /\ indexed < now
    /\ Cardinality(requests) < MaxRequests
    /\ requests' = requests \cup {now}
    /\ UNCHANGED <<now, indexed, bitVotes, crashes, requestVars, reqChan,
                   triggerVars, tickVars, bitVoteVars, bvChan, roundVars, seen>>

RequestsOf(r, S) == {t \in S : RoundIDForTS(t) = r}

\* An honest voter votes in the choose phase, on all requests of the round.
Honest(v) ==
    /\ ChooseStartTS(v.round) <= v.ts /\ v.ts < ChooseEndTS(v.round)
    /\ v.len = Cardinality(RequestsOf(v.round, requests))

BitVoteSubmitted ==
    /\ indexed < now
    /\ Cardinality(bitVotes) < MaxVotes
    /\ \E f \in Voters, r \in Rounds, l \in 0..MaxRequests :
          LET v == [from |-> f, ts |-> now, round |-> r, len |-> l]
          IN  /\ f \in Faulty \/ Honest(v)
              /\ \A w \in bitVotes : ~(w.from = f /\ w.ts = now)
              /\ bitVotes' = bitVotes \cup {v}
    /\ UNCHANGED <<now, indexed, requests, crashes, requestVars, reqChan,
                   triggerVars, tickVars, bitVoteVars, bvChan, roundVars, seen>>

-----------------------------------------------------------------------------
(* Start and crash of the client.                                          *)

\* WaitForDBToSync, then Collector.Run.
Run ==
    /\ ~Running
    /\ now < indexed + Tolerance
    /\ rPc' = "start" /\ tPc' = "start" /\ bPc' = "idle"
    /\ UNCHANGED <<chainVars, crashes, rFrom, rLast, rOut, reqChan, next,
                   tickVars, bRound, bOut, bvChan, roundVars, seen>>

Crash ==
    /\ Running
    /\ crashes < MaxCrashes
    /\ crashes' = crashes + 1
    /\ rPc' = "off" /\ rFrom' = 0 /\ rLast' = 0 /\ rOut' = {} /\ reqChan' = <<>>
    /\ tPc' = "off" /\ next' = 0 /\ tickAt' = 0 /\ tick' = FALSE
    /\ bPc' = "off" /\ bRound' = 0 /\ bOut' = {} /\ bvChan' = <<>>
    /\ created' = {} /\ known' = {} /\ counted' = {}
    /\ calc' = [r \in Rounds |-> "no"]
    /\ seen' = [r \in Rounds |-> 0]
    /\ UNCHANGED chainVars

-----------------------------------------------------------------------------
(* AttestationRequestListener.                                             *)

\* The requests of blocks from..to; a query that finds none sends nothing.
Fetched(S) ==
    /\ rOut' = S
    /\ rPc' = IF S = {} THEN "poll" ELSE "send"

\* The initial query: from the start of the latest round.  If the database has
\* not reached it yet, later queries also bring requests of earlier rounds.
AttestationRequestListenerStarts ==
    /\ rPc = "start"
    /\ rFrom' = IF LastCollectPhaseStart(now) <= indexed
              THEN LastCollectPhaseStart(now) ELSE indexed + 1
    /\ rLast' = indexed
    /\ Fetched({t \in requests : LastCollectPhaseStart(now) <= t /\ t <= indexed})
    /\ UNCHANGED <<chainVars, crashes, reqChan, triggerVars, tickVars,
                   bitVoteVars, bvChan, roundVars, seen>>

\* Mutant: lastQueriedBlock is set before the logs are fetched.
QueryForgetsOnError ==
    /\ rPc = "poll"
    /\ indexed # rLast
    /\ rLast' = indexed
    /\ \/ Fetched({t \in requests : rLast < t /\ t <= indexed})
       \/ QueriesFail /\ UNCHANGED <<rPc, rOut>>
    /\ UNCHANGED <<chainVars, crashes, rFrom, reqChan, triggerVars, tickVars,
                   bitVoteVars, bvChan, roundVars, seen>>

\* One round of the loop.  A failed query changes nothing.
AttestationRequestListener ==
    /\ rPc = "poll"
    /\ indexed # rLast
    /\ rLast' = indexed
    /\ Fetched({t \in requests : rLast < t /\ t <= indexed})
    /\ UNCHANGED <<chainVars, crashes, rFrom, reqChan, triggerVars, tickVars,
                   bitVoteVars, bvChan, roundVars, seen>>

\* Mutant: the listener does not wait for room in the channel.
SendRequestsAnyway ==
    /\ rPc = "send"
    /\ reqChan' = Append(reqChan, rOut)
    /\ rOut' = {}
    /\ rPc' = "poll"
    /\ UNCHANGED <<chainVars, crashes, rFrom, rLast, triggerVars, tickVars,
                   bitVoteVars, bvChan, roundVars, seen>>

\* Mutant: requests that find the channel full are dropped.
SendRequestsOrDrop ==
    /\ rPc = "send"
    /\ reqChan' = IF Len(reqChan) < RequestsCap THEN Append(reqChan, rOut)
                                                ELSE reqChan
    /\ rOut' = {}
    /\ rPc' = "poll"
    /\ UNCHANGED <<chainVars, crashes, rFrom, rLast, triggerVars, tickVars,
                   bitVoteVars, bvChan, roundVars, seen>>

SendRequests ==
    /\ rPc = "send"
    /\ Len(reqChan) < RequestsCap
    /\ reqChan' = Append(reqChan, rOut)
    /\ rOut' = {}
    /\ rPc' = "poll"
    /\ UNCHANGED <<chainVars, crashes, rFrom, rLast, triggerVars, tickVars,
                   bitVoteVars, bvChan, roundVars, seen>>

-----------------------------------------------------------------------------
(* PrepareChooseTrigger.                                                   *)

\* The ticker is reset HeadStart before the end of the choose phase (at once
\* if that is over) and fires a collect duration later.
PrepareChooseTriggerStarts ==
    /\ tPc = "start"
    /\ tPc' = "poll"
    /\ next' = NextChooseEnd(indexed)
    /\ tickAt' = CollectDurationSec +
                     (IF ChooseEndTS(next') <= now + HeadStart THEN now
                      ELSE ChooseEndTS(next') - HeadStart)
    /\ UNCHANGED <<chainVars, crashes, requestVars, reqChan, tick, bitVoteVars,
                   bvChan, roundVars, seen>>

\* On-chain time, or local time with a margin, is past the choose phase.
tryTriggerBitVote ==
    /\ tPc = "poll"
    /\ \/ indexed >= ChooseEndTS(next)
       \/ now > ChooseEndTS(next) + OffChain
    /\ tPc' = "send"
    /\ UNCHANGED <<chainVars, crashes, requestVars, reqChan, next, tickVars,
                   bitVoteVars, bvChan, roundVars, seen>>

\* The trigger channel has no buffer: BitVoteListener takes the round.
SendTrigger ==
    /\ tPc = "send" /\ bPc = "idle"
    /\ tPc' = "wait" /\ next' = next + 1
    /\ bPc' = "fetch" /\ bRound' = next
    /\ UNCHANGED <<chainVars, crashes, requestVars, reqChan, tickVars, bOut,
                   bvChan, roundVars, seen>>

WaitForTick ==
    /\ tPc = "wait" /\ tick
    /\ tick' = FALSE
    /\ tPc' = "poll"
    /\ UNCHANGED <<chainVars, crashes, requestVars, reqChan, next, tickAt,
                   bitVoteVars, bvChan, roundVars, seen>>

-----------------------------------------------------------------------------
(* BitVoteListener.                                                        *)

\* The query's bounds: after From, up to To.
InWindow(v, r) == ChooseStartTS(r) - 1 < v.ts /\ v.ts <= ChooseEndTS(r) - 1

\* A round without bitVotes, or whose query fails, is never heard of again.
BitVoteListener ==
    /\ bPc = "fetch"
    /\ LET got == {v \in bitVotes : InWindow(v, bRound) /\ v.ts <= indexed}
       IN  \/ /\ got # {}
              /\ bOut' = got /\ bPc' = "send"
           \/ /\ got = {} \/ QueriesFail
              /\ bPc' = "idle" /\ bOut' = {}
    /\ seen' = IF bRound \in Rounds THEN [seen EXCEPT ![bRound] = indexed] ELSE seen
    /\ UNCHANGED <<chainVars, crashes, requestVars, reqChan, triggerVars,
                   tickVars, bRound, bvChan, roundVars>>

SendBitVotes ==
    /\ bPc = "send"
    /\ Len(bvChan) < BitVotesCap
    /\ bvChan' = Append(bvChan, [id |-> bRound, msgs |-> bOut])
    /\ bPc' = "idle" /\ bOut' = {}
    /\ UNCHANGED <<chainVars, crashes, requestVars, reqChan, triggerVars,
                   tickVars, bRound, roundVars, seen>>

-----------------------------------------------------------------------------
(* The manager.                                                            *)

\* OnRequest for every log of a message: the round is created if need be.
OnRequests ==
    /\ reqChan # <<>>
    /\ reqChan' = Tail(reqChan)
    /\ known' = known \cup Head(reqChan)
    /\ created' = created \cup {RoundIDForTS(t) : t \in Head(reqChan)}
    /\ UNCHANGED <<chainVars, crashes, requestVars, triggerVars, tickVars,
                   bitVoteVars, bvChan, counted, calc, seen>>

\* Mutant: no check of the time.
OnBitVoteAnyTime(v) == TRUE

\* The checks of OnBitVote: neither too soon nor too late for its round.
OnBitVote(v) == ChooseStartTS(v.round) <= v.ts /\ v.ts < ChooseEndTS(v.round)

\* Mutant: only a bitVote that is too short is refused.
ProcessBitVoteLonger(v) == v.len >= Cardinality(RequestsOf(v.round, known))

\* The checks of ProcessBitVote that depend on the round.
ProcessBitVote(v) == v.len = Cardinality(RequestsOf(v.round, known))

\* Mutant: the first bitVote of a voter stays.
EarliestOfEach(S) ==
    {v \in S : \A w \in S : w.from = v.from /\ w.round = v.round => v.ts <= w.ts}

\* A later bitVote of the same voter replaces an earlier one.
LatestOfEach(S) ==
    {v \in S : \A w \in S : w.from = v.from /\ w.round = v.round => w.ts <= v.ts}

VotersOf(r, S) == {v.from : v \in {w \in S : w.round = r}}

\* Mutant: nothing is computed when no bitVote of the message is accepted.
OnBitVotesIfAny ==
    /\ bvChan # <<>>
    /\ bvChan' = Tail(bvChan)
    /\ LET r == Head(bvChan).id
           accepted == {v \in Head(bvChan).msgs : OnBitVote(v) /\ ProcessBitVote(v)}
       IN  /\ created' = created \cup {v.round : v \in accepted}
           /\ counted' = LatestOfEach(counted \cup accepted)
           /\ calc' = IF accepted # {} THEN [calc EXCEPT ![r] = "ok"] ELSE calc
    /\ UNCHANGED <<chainVars, crashes, requestVars, reqChan, triggerVars,
                   tickVars, bitVoteVars, known, seen>>

\* All bitVotes of a message, then ComputeConsensusBitVote of its round.
OnBitVotes ==
    /\ bvChan # <<>>
    /\ bvChan' = Tail(bvChan)
    /\ LET r == Head(bvChan).id
           inTime == {v \in Head(bvChan).msgs : OnBitVote(v)}
       IN  /\ created' = created \cup {v.round : v \in inTime}
           /\ counted' = LatestOfEach(counted \cup {v \in inTime : ProcessBitVote(v)})
           /\ calc' = IF r \in created'
                      THEN [calc EXCEPT ![r] =
                              IF 2 * Cardinality(VotersOf(r, counted')) >
                                     Cardinality(Voters)
                              THEN "ok" ELSE "failed"]
                      ELSE calc
    /\ UNCHANGED <<chainVars, crashes, requestVars, reqChan, triggerVars,
                   tickVars, bitVoteVars, known, seen>>

-----------------------------------------------------------------------------
ChainNext ==
    TimePasses \/ IndexerCatchesUp \/ RequestEmitted \/ BitVoteSubmitted

RequestNext ==
    \/ AttestationRequestListenerStarts
    \/ AttestationRequestListener
    \/ SendRequests

ChooseNext ==
    \/ PrepareChooseTriggerStarts
    \/ tryTriggerBitVote
    \/ SendTrigger
    \/ WaitForTick
    \/ BitVoteListener
    \/ SendBitVotes

ManagerNext == OnRequests \/ OnBitVotes

Next == ChainNext \/ Run \/ Crash \/ RequestNext \/ ChooseNext \/ ManagerNext

Spec == Init /\ [][Next]_vars

\* Time passes, the indexer follows, every goroutine goes on.  A query that fails is
\* repeated with the next tick and does not fail for ever.  Nobody has to emit
\* requests or bitVotes, and a client need not be started.
Fairness ==
    /\ WF_vars(TimePasses)
    /\ WF_vars(IndexerCatchesUp)
    /\ WF_vars(RequestNext)
    /\ WF_vars(PrepareChooseTriggerStarts \/ tryTriggerBitVote
                    \/ SendTrigger \/ WaitForTick)
    /\ WF_vars(BitVoteListener \/ SendBitVotes)
    /\ WF_vars(ManagerNext)

FairSpec == Spec /\ Fairness

-----------------------------------------------------------------------------
(* Properties.                                                             *)

Content(q) == UNION {q[i] : i \in DOMAIN q}

InChannel == Content(reqChan)

\* The listener loses no request and delivers none twice (a second delivery
\* would add its fee again): whatever happened to its queries, the requests
\* that it holds, that are in the channel and that are in rounds are disjoint
\* and are together all requests of the blocks its queries covered.
RequestsExactlyOnce ==
    rPc \in {"poll", "send"} =>
        /\ known \cup InChannel \cup rOut =
               {t \in requests : rFrom <= t /\ t <= rLast}
        /\ known \cap InChannel = {} /\ known \cap rOut = {}
        /\ InChannel \cap rOut = {}
        /\ \A i, j \in DOMAIN reqChan : i # j => reqChan[i] \cap reqChan[j] = {}

\* A consensus is only computed over all requests that were emitted in the
\* round, in whichever order the manager serves its channels, however far its
\* requests are behind, and after any restart: ProcessBitVote refuses the
\* bitVotes of honest voters otherwise.
ConsensusOnAllRequests ==
    \A r \in Rounds :
        calc[r] = "ok" => RequestsOf(r, known) = RequestsOf(r, requests)

\* A round whose bitVotes were read after the chain had passed its choose
\* phase has the last acceptable bitVote of every voter, and no other.
AllBitVotesCounted ==
    \A r \in Rounds :
        LET valid == {v \in bitVotes :
                        /\ v.round = r
                        /\ ChooseStartTS(r) <= v.ts /\ v.ts < ChooseEndTS(r)
                        /\ v.len = Cardinality(RequestsOf(r, requests))}
        IN  calc[r] = "ok" /\ seen[r] >= ChooseEndTS(r) =>
                {v \in counted : v.round = r} =
                    {v \in valid : \A w \in valid : w.from = v.from => w.ts <= v.ts}

\* A bitVote never reaches a round before the round's own turn: a message for
\* one round cannot bring bitVotes for another one, whatever it claims.
NoForeignBitVotes ==
    \A v \in counted : v.round < next /\ calc[v.round] # "no"

\* Every request that is emitted after the listener's initial query reaches its
\* round, however full the channel is and however often queries fail.
RequestsReachRounds ==
    \A t \in Times :
        (rPc \in {"poll", "send"} /\ t \in requests /\ t > rLast)
            ~> (t \in known \/ ~Running)

\* A round the client has, and some of whose bitVotes were read, gets its
\* consensus computed, with or without success, and if none of the bitVotes is
\* acceptable: submitSignatures answers RETRY until then.
RoundConcluded ==
    \A r \in {q \in Rounds : ChooseEndTS(q) <= MaxTime} :
        (r \in created /\ bPc = "send" /\ bRound = r)
            ~> (calc[r] # "no" \/ ~Running)

=============================================================================
