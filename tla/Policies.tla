------------------------------ MODULE Policies ------------------------------
(***************************************************************************)
(* Which signing policy a round is decided under.                          *)
(*                                                                         *)
(* Once per reward epoch the chain emits a signing policy: the voters and  *)
(* the first voting round it holds for.  SigningPolicyInitializedListener  *)
(* (client/collector/signingPolicy.go, voterRegistry.go) finds it in the   *)
(* indexer's database and sends it to the manager, which stores it         *)
(* (client/manager/manager.go).  A round takes its policy when its first   *)
(* message makes the manager create it, and keeps it; rounds are kept in   *)
(* cyclic storage (client/shared/shared.go).  A policy that cannot be used *)
(* shuts the client down before it would be needed.                        *)
(*                                                                         *)
(* Time is counted in units within which a goroutine that has something to *)
(* do does it: time only passes when the listener, the manager's channel   *)
(* of policies and the scheduled shutdown have nothing left to do.         *)
(* Requests and bitVotes may be late by up to Late units.                  *)
(***************************************************************************)
EXTENDS Timing, FiniteSets, Sequences, SequencesExt

CONSTANTS
    T0RewardDelay,      \* start of reward epoch 0 after T0
    RewardEpochLength,  \* rounds per reward epoch
    Voters,             \* signing addresses of every policy
    Registrations,      \* sequences of VoterRegistered events an epoch may have
    BreakingEpoch,      \* the last epoch of the old voter registry
    InitialPolicies,    \* Number of the initial query
    VotersCap,          \* signingPolicyBufferSize
    RoundBuffer,        \* roundBuffer
    MinDelay,           \* rounds between the emission and the start of a policy
    Registration,       \* rounds from the begin of an epoch to the end of the
                        \* registration of the next epoch's voters
    Early,              \* how long before its expected start it may be emitted
    MaxLag,             \* how far the database may be behind
    Late,               \* how late requests and bitVotes may be handled
    QuietStart,         \* the blocks the database lacks at the time of the
                        \* initial query hold no policy
    MaxTime,            \* bound on time
    MaxPolicies,        \* bound on the number of policies
    MaxStarts,          \* bound on the number of starts
    MaxFails            \* bound on the number of queries that fail in a row

\* The ticker of queryNextSPI needs CollectDurationSec > 1.
ASSUME PoliciesAssumption ==
    /\ T0 > 0 /\ CollectDurationSec > 1
    /\ T0RewardDelay \in Nat /\ RewardEpochLength \in Nat \ {0}
    /\ BreakingEpoch \in Nat /\ InitialPolicies \in Nat \ {0}
    /\ VotersCap \in Nat \ {0} /\ RoundBuffer \in Nat \ {0}
    /\ {MinDelay, Registration, Early, MaxLag, Late} \subseteq Nat
    /\ QuietStart \in BOOLEAN
    /\ {MaxTime, MaxPolicies, MaxStarts, MaxFails} \subseteq Nat

\* No message is later than rounds are kept: 256 rounds of 90 s in the code.
ASSUME LateAssumption ==
    ChooseDurationSec + Late < (RoundBuffer - 1) * CollectDurationSec

\* Querying starts one twentieth of an epoch, at most 10 rounds, before the
\* expected start of the next epoch.
startOffset == IF RewardEpochLength \div 20 + 1 < 10
               THEN RewardEpochLength \div 20 + 1 ELSE 10

\* A policy that comes late is found before its first round begins: there is
\* time for the database, for one period of the ticker and for the queries that
\* fail.  One that comes early is found when querying starts, if the failures
\* and the part of a round by which epochs are shifted fit in the head start.
ASSUME PollingAssumption ==
    /\ MaxLag > 0
    /\ MaxLag + CollectDurationSec + MaxFails <= MinDelay * CollectDurationSec + 2
    /\ (T0RewardDelay % CollectDurationSec) + MaxFails
          < CollectDurationSec * startOffset

\* When the policy after the next is emitted, nobody asks for the rounds before
\* the next one any more; three policies are fetched at the start.
ASSUME HistoryAssumption ==
    /\ ChooseDurationSec + Late < Registration * CollectDurationSec
    /\ InitialPolicies >= 3

VARIABLES
    now,         \* the time, and the block being produced
    indexed,     \* the last block in the database
    policies,    \* policies on the chain; epoch e is policies[e + 1]
    starts, fails,
    lPc,         \* listener: "off", "start", "sendInitial", "wait", "poll", "send"
    lastEpoch,   \* lastInitializedRewardEpochID
    latestQuery, \* latestQuery
    wake,        \* when the next query of a round of queries is due, 0 if at once
    batch,       \* epochs of the policies it is about to send
    voters,      \* channel Voters: batches of epochs
    mPc,         \* manager: "off", "init", "run"
    store,       \* signingPolicyStorage: epochs, in order
    lastRoundCreated,
    rounds,      \* Manager.Rounds: [id, epoch] of the rounds in cyclic storage
    shutdowns,   \* when the client is going to shut down
    from,        \* where the first query for requests begins
    firstVotes,  \* the first round whose bitVotes are fetched
    misjudged,   \* history: rounds with a result under another policy than the
                 \* one in force
    refused      \* history: rounds that got a message but had no policy

chainVars    == <<now, indexed, policies>>
boundVars    == <<starts, fails>>
listenerVars == <<lPc, lastEpoch, latestQuery, wake, batch>>
storeVars    == <<store, shutdowns>>
roundVars    == <<lastRoundCreated, rounds, refused>>
inputVars    == <<from, firstVotes>>
vars == <<chainVars, boundVars, listenerVars, voters, mPc, storeVars, roundVars,
          inputVars, misjudged>>

Epochs == 0..(Len(policies) - 1)
Policy(e) == policies[e + 1]
StartOf(e) == Policy(e).start
ExpectedStartTS(e) == ExpectedRewardEpochStartTS(e, T0RewardDelay, RewardEpochLength)

\* The policy in force in round r, according to the chain.
EpochOf(r) == CHOOSE e \in Epochs : /\ StartOf(e) <= r
                                    /\ \A f \in Epochs : StartOf(f) <= r => f <= e

-----------------------------------------------------------------------------
(* The chain starts with the policy of epoch 0, in force from round 0.     *)

Init ==
    /\ now = T0 /\ indexed = T0 - 1
    /\ \E regs \in Registrations :
          policies = <<[start |-> 0, ts |-> 0, registry |-> "old", regs |-> regs]>>
    /\ starts = 0 /\ fails = 0
    /\ lPc = "off" /\ lastEpoch = 0 /\ latestQuery = 0 /\ wake = 0 /\ batch = <<>>
    /\ voters = <<>>
    /\ mPc = "off" /\ store = <<>> /\ shutdowns = {}
    /\ lastRoundCreated = 0 /\ rounds = {} /\ from = 0 /\ firstVotes = 0
    /\ misjudged = {} /\ refused = {}

-----------------------------------------------------------------------------
(* The chain and the indexer.                                              *)

Larger(a, b) == IF a < b THEN b ELSE a

\* The contract starts the next epoch when it was expected, or later when the
\* policy is late, and only after the voters of the epoch were registered,
\* which begins with the previous epoch.
SigningPolicyInitialized ==
    /\ indexed < now
    /\ Len(policies) < MaxPolicies
    /\ QuietStart => latestQuery < now
    /\ LET e == Len(policies) IN
          /\ RoundStartTS(StartOf(e - 1) + Registration) <= now
          /\ ExpectedStartTS(e) <= now + Early
          /\ \E regs \in Registrations :
                policies' = Append(policies,
                    [start |-> Larger(RoundIDForTS(ExpectedStartTS(e)),
                                      RoundIDForTS(now) + MinDelay + 1),
                     ts |-> now,
                     registry |-> IF e <= BreakingEpoch THEN "old" ELSE "new",
                     regs |-> regs])
    /\ UNCHANGED <<now, indexed, boundVars, listenerVars, voters, mPc, storeVars,
                   roundVars, inputVars, misjudged>>

IndexerCatchesUp ==
    /\ indexed < now
    /\ indexed' = now
    /\ UNCHANGED <<now, policies, boundVars, listenerVars, voters, mPc, storeVars,
                   roundVars, inputVars, misjudged>>

QueryDue ==
    \/ /\ lPc = "wait"
       /\ ExpectedStartTS(lastEpoch + 1) <= now + CollectDurationSec * startOffset
       /\ wake <= now
    \/ lPc = "poll" /\ wake <= now

SendDue == lPc \in {"sendInitial", "send"} /\ Len(voters) < VotersCap

TimePasses ==
    /\ now < MaxTime
    /\ now - indexed < MaxLag
    /\ lPc # "start" /\ ~QueryDue /\ ~SendDue
    /\ voters = <<>>
    /\ \A s \in shutdowns : now < s
    /\ now' = now + 1
    /\ UNCHANGED <<indexed, policies, boundVars, listenerVars, voters, mPc,
                   storeVars, roundVars, inputVars, misjudged>>

-----------------------------------------------------------------------------
(* Start and end of the client.                                            *)

Start ==
    /\ mPc = "off"
    /\ starts < MaxStarts
    /\ T0 <= indexed
    /\ starts' = starts + 1 /\ fails' = 0
    /\ lPc' = "start" /\ mPc' = "init"
    /\ from' = LastCollectPhaseStart(indexed)
    /\ firstVotes' = NextChooseEnd(indexed)
    /\ UNCHANGED <<chainVars, lastEpoch, latestQuery, wake, batch, voters,
                   storeVars, roundVars, misjudged>>

Ends ==
    /\ lPc' = "off" /\ lastEpoch' = 0 /\ latestQuery' = 0 /\ wake' = 0
    /\ batch' = <<>> /\ voters' = <<>>
    /\ mPc' = "off" /\ store' = <<>> /\ shutdowns' = {}
    /\ lastRoundCreated' = 0 /\ rounds' = {}
    /\ from' = 0 /\ firstVotes' = 0
    /\ UNCHANGED <<chainVars, boundVars, refused, misjudged>>

Crash == mPc = "run" /\ Ends

\* cancel() at the time a bad policy set.
scheduledShutdown ==
    /\ \E s \in shutdowns : s <= now
    /\ Ends

-----------------------------------------------------------------------------
(* SigningPolicyInitializedListener and spiTargetedListener.               *)

\* Mutant: only the latest policy is fetched.
initialLogsOne ==
    LET S == {e \in Epochs : Policy(e).ts <= indexed}
    IN  {e \in S : Cardinality({f \in S : e < f}) < 1}

initialLogs ==
    LET S == {e \in Epochs : Policy(e).ts <= indexed}
    IN  {e \in S : Cardinality({f \in S : e < f}) < InitialPolicies}

InOrder(S) == CHOOSE q \in [1..Cardinality(S) -> S] :
                 \A i, j \in DOMAIN q : i < j => q[i] < q[j]

SigningPolicyInitializedListener ==
    /\ lPc = "start"
    /\ QuietStart => Last(policies).ts <= indexed
    /\ batch' = InOrder(initialLogs)
    /\ lastEpoch' = Last(batch')
    /\ latestQuery' = now
    /\ lPc' = "sendInitial"
    /\ UNCHANGED <<chainVars, boundVars, wake, voters, mPc, storeVars, roundVars,
                   inputVars, misjudged>>

\* The logs of queryNextSPI: after the last query, up to now, in the database.
newLogs == {e \in Epochs : /\ latestQuery < Policy(e).ts
                           /\ Policy(e).ts <= now /\ Policy(e).ts <= indexed
                           /\ e > lastEpoch}

\* Mutant: every iteration starts its window where the previous one ended.
queryNextSPIMovesOn ==
    /\ QueryDue
    /\ latestQuery' = now
    /\ \/ /\ newLogs = {}
          /\ lPc' = "poll" /\ wake' = now + CollectDurationSec - 1
          /\ batch' = batch
       \/ /\ newLogs # {}
          /\ lPc' = "send" /\ batch' = InOrder(newLogs)
          /\ wake' = 0
    /\ fails' = 0
    /\ UNCHANGED <<chainVars, starts, lastEpoch, voters, mPc, storeVars,
                   roundVars, inputVars, misjudged>>

queryNextSPI ==
    /\ QueryDue
    /\ \/ /\ newLogs = {}
          /\ lPc' = "poll" /\ wake' = now + CollectDurationSec - 1
          /\ batch' = batch
       \/ /\ newLogs # {}
          /\ lPc' = "send" /\ batch' = InOrder(newLogs)
          /\ wake' = 0
    /\ fails' = 0
    /\ UNCHANGED <<chainVars, starts, lastEpoch, latestQuery, voters, mPc,
                   storeVars, roundVars, inputVars, misjudged>>

\* The query gives up after its retries, and the loop starts over.
queryNextSPIFails ==
    /\ QueryDue
    /\ fails < MaxFails
    /\ fails' = fails + 1
    /\ lPc' = "wait" /\ wake' = now + 1
    /\ UNCHANGED <<chainVars, starts, lastEpoch, latestQuery, batch, voters, mPc,
                   storeVars, roundVars, inputVars, misjudged>>

\* Mutant: the epoch is not counted on.
spiTargetedListenerStays ==
    /\ SendDue
    /\ voters' = Append(voters, batch)
    /\ batch' = <<>>
    /\ lPc' = "wait" /\ wake' = 0
    /\ lastEpoch' = lastEpoch
    /\ latestQuery' = IF lPc = "send" THEN now ELSE latestQuery
    /\ UNCHANGED <<chainVars, boundVars, mPc, storeVars, roundVars, inputVars,
                   misjudged>>

\* After the initial send the last log fixes the epoch; later it is counted on.
spiTargetedListenerSends ==
    /\ SendDue
    /\ voters' = Append(voters, batch)
    /\ batch' = <<>>
    /\ lPc' = "wait" /\ wake' = 0
    /\ IF lPc = "send"
       THEN latestQuery' = now /\ lastEpoch' = lastEpoch + 1
       ELSE UNCHANGED <<latestQuery, lastEpoch>>
    /\ UNCHANGED <<chainVars, boundVars, mPc, storeVars, roundVars, inputVars,
                   misjudged>>

-----------------------------------------------------------------------------
(* The voters of a policy: AddSubmitAddressesToSigningPolicy.              *)

\* The client is configured with the new registry.
registryContractAddress(e) == IF e <= BreakingEpoch THEN "old" ELSE "new"

\* The events of a contract for an epoch: none from the other contract.
VoterRegisteredEvents(e) ==
    IF Policy(e).registry = registryContractAddress(e) THEN Policy(e).regs ELSE <<>>

\* A submit address belongs to the signing address of its last event.
SubmitToSigning(evs) ==
    {evs[i] : i \in {j \in DOMAIN evs :
                        \A k \in DOMAIN evs : evs[k].submit = evs[j].submit => k <= j}}

\* Every voter has a submit address.
VotersDataCheck(e) ==
    Voters \subseteq {m.signing : m \in SubmitToSigning(VoterRegisteredEvents(e))}

-----------------------------------------------------------------------------
(* The manager.                                                            *)

\* signingPolicyStorage.Add: epochs without a gap, starts in order.
CanAdd(s, e) ==
    s = <<>> \/ (Last(s) + 1 = e /\ StartOf(Last(s)) <= StartOf(e))

\* Mutant: the shutdown comes one round later.
OnSigningPolicyLate(st, e) ==
    IF VotersDataCheck(e) /\ CanAdd(st.store, e)
    THEN [st EXCEPT !.store = Append(@, e)]
    ELSE [st EXCEPT !.shutdowns = @ \cup {RoundStartTS(StartOf(e) + 2)}]

\* OnSigningPolicy for one policy; an error schedules a shutdown for the time
\* when the first round of the policy has been collected.
OnSigningPolicy(st, e) ==
    IF VotersDataCheck(e) /\ CanAdd(st.store, e)
    THEN [st EXCEPT !.store = Append(@, e)]
    ELSE [st EXCEPT !.shutdowns = @ \cup {RoundStartTS(StartOf(e) + 1)}]

AddAll(es) == FoldLeft(OnSigningPolicy, [store |-> store, shutdowns |-> shutdowns], es)

\* The initial policies: an error is a panic.
RunInitial ==
    /\ mPc = "init" /\ voters # <<>>
    /\ LET st == AddAll(Head(voters)) IN
          \/ st.shutdowns # {} /\ Ends
          \/ /\ st.shutdowns = {}
             /\ store' = st.store
             /\ mPc' = "run"
             /\ voters' = Tail(voters)
             /\ UNCHANGED <<chainVars, boundVars, listenerVars, shutdowns, roundVars,
                            inputVars, misjudged>>

\* signingPolicyStorage.RemoveBefore: policies that ended before round r.
RemoveBefore(s, r) ==
    LET kept == {i \in DOMAIN s : i = Len(s) \/ ~(StartOf(s[i + 1]) < r)}
    IN  SubSeq(s, Min(kept), Len(s))

OnSigningPolicies ==
    /\ mPc = "run" /\ voters # <<>>
    /\ LET st == AddAll(Head(voters)) IN
          /\ store' = RemoveBefore(st.store, lastRoundCreated)
          /\ shutdowns' = st.shutdowns
    /\ voters' = Tail(voters)
    /\ UNCHANGED <<chainVars, boundVars, listenerVars, mPc, roundVars, inputVars,
                   misjudged>>

\* Mutant: one slot less.
SlotOff(r) == r % (RoundBuffer - 1)

Slot(r) == r % RoundBuffer

\* signingPolicyStorage.ForVotingRound: the last stored policy that has begun.
ForVotingRound(r) ==
    {e \in ToSet(store) : /\ StartOf(e) <= r
                          /\ \A f \in ToSet(store) : StartOf(f) <= r => f <= e}

Stored(r) == \E x \in rounds : x.id = r

\* A new round takes its voters from the policy and the slot of an older round.
GetOrCreateRound(r) ==
    LET new == {[id |-> r, epoch |-> e] : e \in ForVotingRound(r)} IN
    IF Stored(r) THEN UNCHANGED roundVars
    ELSE IF new = {}
    THEN refused' = refused \cup {r} /\ UNCHANGED <<lastRoundCreated, rounds>>
    ELSE /\ rounds' = {x \in rounds : Slot(x.id) # Slot(r)} \cup new
         /\ lastRoundCreated' = r
         /\ UNCHANGED refused

\* A request emitted in the window of the collector's queries.
OnRequest ==
    /\ mPc = "run"
    /\ \E r \in {RoundIDForTS(t) : t \in {u \in from..indexed : now <= u + Late}} :
          GetOrCreateRound(r)
    /\ UNCHANGED <<chainVars, boundVars, listenerVars, voters, mPc, storeVars,
                   inputVars, misjudged>>

\* The bitVotes of round r after its choose phase, then ComputeConsensusBitVote
\* if the round is there.  That they come once is not needed here.
OnBitVotes ==
    /\ mPc = "run"
    /\ \E r \in firstVotes..RoundIDForTS(now) :
          /\ ChooseEndTS(r) <= now /\ now <= ChooseEndTS(r) + Late
          /\ GetOrCreateRound(r)
          /\ misjudged' = misjudged \cup
                {x.id : x \in {y \in rounds' : y.id = r /\ y.epoch # EpochOf(r)}}
    /\ UNCHANGED <<chainVars, boundVars, listenerVars, voters, mPc, storeVars,
                   inputVars>>

-----------------------------------------------------------------------------
Next ==
    \/ SigningPolicyInitialized
    \/ IndexerCatchesUp
    \/ TimePasses
    \/ Start \/ Crash \/ scheduledShutdown
    \/ SigningPolicyInitializedListener
    \/ queryNextSPI
    \/ queryNextSPIFails
    \/ spiTargetedListenerSends
    \/ RunInitial
    \/ OnSigningPolicies
    \/ OnRequest
    \/ OnBitVotes

Spec == Init /\ [][Next]_vars

-----------------------------------------------------------------------------
\* Every result was computed with the voters of the policy that is in force in
\* the round: a policy arrives before the first message of its first round,
\* or the client shuts down before that round's bitVotes are counted
\* (GetOrCreateRound, the scheduled shutdown in Manager.Run).
ConsensusUnderRightPolicy == misjudged = {}

\* When the first round of a policy has begun, a running client has stored the
\* policy or is going to shut down, whatever the lag of the database, the
\* failed queries and the time of the start (spiTargetedListener).
PolicyInTime ==
    mPc = "run" =>
        \A e \in Epochs :
            RoundStartTS(StartOf(e)) < now => Last(store) >= e \/ shutdowns # {}

\* A round of queries finds one policy, the one of the next epoch: two in one
\* window "should never happen" (queryNextSPI), and the epoch that the listener
\* counts on by itself (lastInitializedRewardEpochID++) is the one it sent.
OnePolicyPerQuery == lPc = "send" => batch = <<lastEpoch + 1>>

\* No message is lost because its round has no policy: the three policies of
\* the initial query cover every round a starting client hears of, and
\* RemoveBefore removes none that is still needed, although lastRoundCreated
\* can go back.
NoMessageRefused == refused = {}

\* A round leaves cyclic storage only when none of its messages can come any
\* more: it would be created a second time, without its requests, and could
\* replace a newer one (Rounds.Store in GetOrCreateRound).
RoundKeptWhileNeeded ==
    [][mPc' = "run" =>
          \A x \in rounds \ rounds' : ChooseEndTS(x.id) + Late < now]_vars

=============================================================================
