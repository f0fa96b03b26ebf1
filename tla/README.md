# Verification of the FDC client

TLA+ models of the FDC client (`src/`), the TLC configurations that check them
on small instances and the TLAPS proofs that carry the main results to every
instance. `PROJECT.json` lists runs, mutants, the mapping of every definition to
source lines, findings, hazards and theorems.

## 1. The system

The client is a data provider's node of the Flare Data Connector. Time is cut
into voting rounds of 90 s. In the *collect phase* of round `n` users emit
attestation requests on chain; in the 45 s after it, the *choose phase*, every
provider submits a *bitVote* (one bit per request: "my verifier confirmed it").
When the choose phase is over every client computes the same *consensus
bitVote*, builds a Merkle tree over the chosen, confirmed requests, and has its
root signed. The client talks to: the database of a chain indexer, verifier
servers (HTTP), the FSP client (which calls `submit2`, `submitSignatures`), and
the data availability (DA) layer (`getRequests`, `getAttestations`).

### Components

| Component | State | Operations | Talks to |
|---|---|---|---|
| collector: requests (`collector/requests.go`) | `lastQueriedBlock` | initial query, poll every 2 s | database; channel *requests* (10) |
| collector: choose phase (`collector/choose.go`) | next round, its end, ticker; round being served | `PrepareChooseTrigger`, `tryTriggerBitVote`, `BitVoteListener` | database; unbuffered trigger channel; channel *bitVotes* (2) |
| collector: signing policies (`signingPolicy.go`, `voterRegistry.go`) | last reward epoch, time of the last query | initial three policies, targeted polling | database; channel *voters* (3) |
| manager (`manager/manager.go`) | rounds, policies, `lastRoundCreated` | `Run`: one goroutine serving the three channels; `OnRequest`, `OnBitVote`, `OnSigningPolicy`, `retryUnsuccessfulChosen` | channels, round, queues |
| queues (`manager/queues.go`, library) | regular and fast entries with attempts | `Dequeue` with `discard` and `handler`, `Add`, `AddFast` | attestation |
| attestation (`attestation/attestation.go`, `verifiers.go`, `verification.go`) | status, consensus flag, response, hash; `RWMutex` | `PrepareRequest`, `Discard`, `Handle`, `validateResponse` (MIC, LUT, hash) | verifier; round status |
| round (`round/round.go`) | attestations, bitVotes, consensus bitVote, flag "calculation finished", tree, status; `RWMutex` | `AddAttestation`, `BitVote`, `ProcessBitVote`, `ComputeConsensusBitVote`, `MerkleTree`, `MerkleTreeCached`, `MerkleRoot` | attestations |
| consensus algorithm (`attestation/bitVotes`) | none (pure, two goroutines per search) | `EnsembleConsensusBitVote` | - |
| timing (`timing`) | chain constants | rounds and phases of timestamps | - |
| FSP endpoints (`server/provider*.go`) | none | `submit1`, `submit2`, `submitSignatures` | round |
| DA endpoints (`server/da*.go`) | none | `GetRequests`, `GetAttestations` | round, attestations |
| configuration, `main`, bindings, plumbing | - | start, shutdown | - |

### What is hard

* The manager, the queue workers and any number of HTTP handlers share a round
  under three kinds of mutexes; some fields are read without one.
* One request can be in a queue twice (regular and fast), while the verifier call
  holds the attestation's lock for up to its timeout.
* The database lags behind the chain, queries fail, channels are full, tickers
  drop ticks, and the manager serves its channels in any order.
* The client keeps nothing across a restart: what the initial queries fetch has to
  fit the windows of the later ones, for requests, bitVotes and signing policies.
* Every client numbers the requests of a round for itself, from logs that come in
  batches and partly twice; a bitVote is only meaningful if all of them arrive at
  the same numbers.
* A request may be verified several times, by different verifiers, in different
  clients; what is compared is the decoded response, what becomes the leaf is the
  hash of the bytes that were received.
* The consensus search is cut at a fixed number of operations and has to return
  something valid anyway.

### What makes each part correct

* round and endpoints: what is signed and what is published is exactly the
  consensus, over confirmed requests, and does not change afterwards; calls
  return; successive bitVotes do not contradict each other.
* queues and retry: nothing is dropped while it may be chosen; what is chosen
  ends up confirmed when its verifier confirms it.
* collector and manager: each request is delivered exactly once to its round; a
  consensus is only computed over all of the round's requests; the last valid
  bitVote of each voter counts, no other; every round gets a result.
* signing policies: a round is judged under the policy that is in force in it; no
  message finds its round without a policy; a round stays as long as it is needed.
* bitVotes: a bit means the same request to the one who votes and to the one who
  counts; fees belong to the requests they were paid for.
* verification: what is confirmed is what the message integrity code was made of,
  with a recent enough LUT; its leaf is the hash of the response that is published,
  the same in every client whose verifier encodes it in the same way.
* algorithm: the chosen requests are jointly confirmed by a majority; a solution
  called optimal is optimal; there is an error exactly without a quorum.

## 2. Modules

```
Timing --- TimingProofs
  |             |
  +- Collector -+- CollectorProofs
  |    `- MCCollector
  +- Policies --+- PoliciesProofs
  |    `- MCPolicies
  `- Verification --- VerificationProofs
       `- MCVerification
RoundSpec <-- RoundLife --- RoundLifeProofs --- RoundSpecProofs
                `- MCRoundLife
BitVotes --- BitVotesProofs       Ballots --- BallotsProofs
  `- MCBitVotes                     `- MCBallots
```

`RoundSpec` is the abstract specification that `RoundLife` implements. The other
modules look at the same client from different sides and rely on each other:
`RoundLife` takes a confirmed request for its hash, and `Verification` says when that is right;
it lets the consensus be anything, which `BitVotes` computes, from the list of
requests and fees that is the subject of `Ballots`; `Collector` assumes a policy for
every round, which `Policies` is about.

**RoundLife** is one round and everybody who touches it. Its variables are the
fields of `Round` and `Attestation` plus the program counters of the manager
(`mgr`, `mtodo`), of the queue entries (`item`, `attempts`), of `submit2`
(`voting`, `vtodo`, `vgot`), of each `submitSignatures` call (`fspPc`, `fspBv`)
and of each `getAttestations` call (`daPc`, `daTree`, `daTodo`, `daGot`). One
action is one stretch of code between two points where another goroutine can
interfere: each iteration of a loop that locks attestations one by one is an
action; so are the two unlocked reads of `GetConsensusBitVote`, and the start and
the end of a verifier call.

* A mutex is not a variable. It is held exactly while its owner is at certain
  places (`WriteLocked`, `Handled`, `HeldByRetry`), or for good after a leak
  (`leaked`).
* `Round.MerkleTree` is one action although it takes the attestations' read locks
  one by one: it keeps all of them to the end (`defer`), so what it reads is the
  state at the moment it has the last one. Its failure only needs the locks up to
  the request it fails on.
* A tree is the set of its leaves, and the leaf of a confirmed request is the
  request: two confirmations of one request have the same hash if its verifier
  encodes it the same way each time (`HashAgreement` in `Verification` says that this
  is also necessary), which is assumed here. An empty tree has no root (`merkle.Root`
  returns an error).
* The consensus is any subset of the round's requests: `RoundLife` does not depend
  on how it is computed. A round's result is computed at most once, because the
  trigger names every round once (`Collector`).
* The priority queue is a library: at most `MaxWorkers` entries are being worked
  on, an entry whose handler failed goes back until `MaxAttempts` calls failed.
  Neither the order of entries nor the rate limit is kept; every order is explored.

**RoundSpec** is what a round promises its callers: it makes at most one choice, and
only before it closes; then a root over all of the choice may be built, and from
then on `submitSignatures` and `getAttestations` answer with this choice and nothing
else, or without data. `RoundLife` implements it (`ImplementsRound`) under
the mapping `choice <- bitVector`, `closed <- finished`, `root <- tree`, an answer
being what was replied with status *Ok*. Locks, flags that are set one by one,
queue entries and everything a handler has read so far are invisible in it.

**BitVotes** is the algorithm: `FilterBits`, `FilterVotes`, `FilterBitsOnes`,
aggregation of equal votes and bits, the sort orders of the two strategies, both
searches as recursive functions of a node that carries the bound and the operation counter,
`MaximizeBits`/`MaximizeVotes` are operators; `ensemble` is the state machine around
them: filter and aggregate, run the first method, run the second one if the first
was cut short, assemble. The two strategies of a method are goroutines that end in
any order, and the caller goes on without the second one when the first one's
solution is optimal.

**Timing** is `timing.go`: rounds and phases as functions of a timestamp, with the
chain's constants as CONSTANTS. Assumed: a choose phase is not longer than a
round (45 s of 90 s by default).

**Collector** is the way from the chain into the rounds: time, the indexer, the
two listeners and the trigger as processes with a program counter each, the two
bounded channels, and the manager taking from either. `Crash` loses everything but
the chain, `Run` starts the client when the database is in sync
(`WaitForDBToSync`). Every second has a block and a block's number is its
timestamp; a request is the timestamp of its block, a bitVote is
`[from, ts, round, len]`: what decides whether it is accepted. Logs are fetched
with an exclusive lower and an inclusive upper bound, except the initial query by
timestamp; this is how the code uses the database library. A failed query changes
nothing and is therefore a stuttering step for the request listener; for the
bitVote listener it loses the round, which `BitVoteListener` allows when
`QueriesFail`. `Honest` voters vote in the choose phase on all requests of the
round; `Faulty` ones vote whenever and however they like. Votes have equal weight
here; weights are the subject of `BitVotes`. A signing policy is assumed for every
round.

A round without bitVotes, or whose only query failed, never gets a result and
`submitSignatures` answers *RETRY* for it for ever; the ticker drops ticks, so after
an outage of two rounds every later round is reported late. `RoundConcluded` is
about the rounds of which something was read.

`rFrom` and `seen` are history variables: the first block the listener's queries
cover, and the database time at which a round's bitVotes were read. No guard
mentions them.

**Policies** is the way of a signing policy from the chain into the rounds: the
contract emits one policy per reward epoch, in time or late; `SigningPolicyInitializedListener`
fetches the latest three, `spiTargetedListener` and `queryNextSPI` poll for the next one
from a few rounds before it is expected; the voters come from the registration events of
the old or the new registry (`registryContractAddress`, `SubmitToSigning`);
the manager checks and stores the policy or schedules a shutdown
(`OnSigningPolicy`, `scheduledShutdown`), removes old ones by `lastRoundCreated`, and
creates rounds in a cyclic storage (`GetOrCreateRound`, `Slot`). Storage of policies
and of rounds are libraries; they are modelled as the code uses them. Assumed about
the outside: voters register in the first `Registration` rounds of the previous epoch and a
policy is in force at the earliest `MinDelay + 1` rounds after it was emitted (the contract), the
database lags by at most `MaxLag`, goroutines react within a unit of time
(`TimePasses` waits for what is due), messages are at most `Late` behind, at most `MaxFails`
queries fail in a row. How these bounds have to relate is stated in `PollingAssumption` and
`HistoryAssumption` (section 4). Logs are fetched with an exclusive lower bound. `QuietStart` excludes a policy
that is on the chain but not in the database at the moment of the initial query.
`misjudged` and `refused` are history variables.

**Ballots** is the meaning of a bit. `Clients` fetch the logs of a round in batches
of their own, add them one by one (`AddAttestation`, merging fees and indexes of a
repeated request, with the earliest index first), sort under the round's lock when
they vote and when they count, and encode the bitVote as bytes. The `Counter`
processes the messages in any order, among messages that are not valid (`Noise`),
and computes the input of the algorithm: the requests in order with their fees. A sort
is a sequence of swaps of two writes each, and `GetRequests` reads the list in
between because it takes no lock. Both `submit2` and `GetRequests` come at any time,
also between two logs of a query, which are in the order of the chain or not
(`ordered`). All requests of the round are on the chain, because `submit2` is not answered before
the collect phase is over (`submitXController`). A byte has `Base` values. `meant` and `gapless` in a
message are history: what the voter meant, and whether no log was missing before one
it had added. No guard mentions them.

A bitVote given in the middle of an unordered query may have its bits at other places than
the same client has them a moment later, when a repeated request moves
(`sortAttestations`); a `GetRequests` call that overlaps a sort, or a log that makes a later sort move
something, may list a request twice and another one not at all. Both happen in the
model; the properties say which bitVotes and which calls they are about.

**Verification** is what one call of `Handle` does, for several clients with the
same request. Requests and responses are sequences of 32-byte slots, so that the
positions of type, source, MIC, round and LUT are those of the code, with and without
the leading slot of a dynamic struct; the rest of a response is one slot. Hashes do
not collide: a hash is what it was taken of. Verifiers answer with any struct of the
type, with *not confirmed*, or not at all, and differently every time. A struct is
encoded as `Encode(s, o, n)`: at slot `o`, in `n` slots, too few of them included. The
decoder takes every one that is long enough (`Unpack`), the MIC is that of the standard encoding of
the decoded struct (`ComputeMIC`), and the leaf is the hash of the received slots with the round
written into them (`Hash`). What follows from that in the code, and is in the properties:

* verifiers that send the same struct with another offset or with slots behind it all get
  it confirmed, with different leaves (`HashAgreement`);
* `IsStaticType` looks for 32 in the first slot, which its comment derives from the
  standard encoding. A dynamic struct at another offset is taken for a static one: at
  offsets 2 and 3 a name is read as LUT and the verdict is *ProcessError*; from 4
  on, what is in front of the struct is read as LUT, and the round is written there, so
  that the published response still has its own round (`VerdictRight`, `ResponseProvable`).

No document of the repository says that verifiers may encode as they like, or that the client checks how they do;
that they use the standard encoding is an assumption of the code that it does not check.
The verdict on a LUT is with integers that do not wrap.

Definitions whose comment begins with *Mutant* are not part of any specification.
Each one is a definition with a plausible mistake; `PROJECT.json` says which
property the mistake breaks.

## 3. Runs

All run with `tlc -workers 2 -config <run>.cfg MC<module>`.

| Run | States | Shows |
|---|---|---|
| RoundLifeSign | 1.2 M | `SignedRootMatchesConsensus`, `SignsOnlySupported`, `DaProofsMatchConsensus`, `TreeStable` and `ImplementsRound` while `submitSignatures` and `getAttestations` calls race with manager and workers; one of three requests has no verifier |
| RoundLifeVote | 1.5 M | `BitVoteGrows`, `NotDroppedBeforeConsensus`, `RetryCoversChosen`, with failing verifiers, retries and a `getAttestations` call at any time |
| RoundLifeLive | 73 k | `ChosenConfirmed` and `DaAnswered` under fairness: the locks do not deadlock as long as nobody calls `submitSignatures` |
| BitVotes | 669 k | majority, quorum, optimality, value, and `FirstOptimalNeverWorse` (not waiting for the second strategy changes nothing) for all bitVotes of three voters on three requests, and of four on four, where both searches may go first and both are cut |
| CollectorRequests | 194 k | `RequestsExactlyOnce`, `AllBitVotesCounted` and, under fairness, `RequestsReachRounds` and `RoundConcluded`, with failing queries, a full channel, a crash and a voter who votes again |
| CollectorVotes | 9.2 M | `ConsensusOnAllRequests`, `NoForeignBitVotes` with a faulty voter and both triggers |
| Policies | 478 k | `ConsensusUnderRightPolicy`, `PolicyInTime`, `NoMessageRefused`, `OnePolicyPerQuery`, `RoundKeptWhileNeeded` over three reward epochs, for a client that starts at any time, with a lagging database, a failed query and a policy that the manager refuses |
| Ballots | 3.1 M | `BitsMeanTheSame`, `ConsensusInputCorrect`, `LastValidVoteCounts`, `GetRequestsExact` for two clients with batches of their own, ordered or not, `submit2` and `GetRequests` at any time, a repeated request and messages that are not valid |
| Verification | 160 k | `NoPanic`, `HashAgreement`, `ResponseProvable`, `VerdictRight` for a static and a dynamic type, LUTs around the limit, beyond the start of the choose phase and beyond `uint64`, in standard, shifted, longer and shorter encodings |

Runs that are expected to fail, each with a finding in `PROJECT.json`:

| Run | Property | What happens |
|---|---|---|
| RoundLifeLeak | `DaAnswered` | `MerkleTreeCached` returns with the read lock held; the next writer waits for ever |
| RoundLifeEmpty | `EmptyOnlyWithoutConsensus` | the two reads of `GetConsensusBitVote` fall on two sides of the computation |
| PoliciesMissed | `PolicyInTime` | a policy that is not in the database yet when the client starts is outside of every later window |

The passing runs keep these cases apart on purpose. `RoundLifeLive` has no
`submitSignatures` calls (the leak), `RoundLifeVote` has only supported requests. These
properties name the case they leave out, which is in the model:

* `NotDroppedBeforeConsensus`: the early *Done*, after which the queues may drop a request;
* `RetryCoversChosen`: a chosen request without queue, which ends the retry;
* `BitsMeanTheSame`: a bitVote given while a log was missing before one already added;
* `ConsensusInputCorrect`: a client that computes the consensus before it has all logs;
* `GetRequestsExact`: calls that start before the consensus;
* `AllBitVotesCounted`: rounds whose bitVotes were read before the database had all of the choose phase;
* `VerdictRight`, `ResponseProvable`: structs at another than the standard offset, for
  which they say less.

`RoundLifeSign` has them all: an early *Done*, the leak, the aborted
retry, and a confirmation that a second, overlapping call of `Handle` takes back
(regular and fast entry of the same request) delay answers but do not falsify them.

### Bounds

* Two supported requests: one before and one after another in the order of the
  loops, and both ways of choosing one of them; a third one without verifier in
  `RoundLifeSign`. Two workers let the regular and the fast entry of one request
  overlap. `MaxAttempts = 2` gives one retry.
* One `submitSignatures` and one `getAttestations` call at a time, any number of
  times: either may build the tree between two steps of the other, and a later
  `submitSignatures` finds it cached (and leaks). The proofs are for any number of
  simultaneous calls.
* `BitVotes`: three voters and requests give every pattern of filtering; with four
  there can be fewer distinct votes than distinct bits, so that the search over
  votes goes first. `maxOps` is chosen to cut the search at once, in the middle, or
  never; totals are odd and even, with and without absent voters.
* `Policies`: epochs of three rounds of two units; the third policy comes after the
  first one could be removed. One start at any time is enough: nothing is kept, so
  a restart is a start at a later time. A cyclic storage of three slots is reused twice.
  `MaxTime`, `MaxPolicies` and `MaxStarts` only bound the run; `MaxFails` bounds the
  queries that fail in a row, and the proofs depend on it.
* `Ballots`: three logs of two requests, the first and the last of the same one, in
  three blocks with log indexes that start again in each, so that every order of arrival
  that matters, and a swap, can happen, also after a bitVote was given; two bitVotes on the chain, a repeated or
  a second voter's, and one message that is not valid; bytes of one bit, so that
  vectors have several bytes. Two `GetRequests` calls, so that one can
  follow another one that went wrong. The constraint `Combinations` of `MCBallots` keeps things
  apart that do not meet: `GetRequests` only reads the list of the counting client, and messages
  of addresses that do not count only go through its `ProcessBitVote`, so they are
  explored with everything this client does, and not with the other one.
* `Verification`: two clients, since agreement is between two, in symmetry; structs
  that differ from the one asked for in LUT or body; answers at offset 0, 1 (standard
  for a dynamic type) and 4 (the LUT is read in front of the struct), of 3 slots (too short
  for the LUT), 5 and 6 (the standard lengths, and one slot too many or too few), and 9; `uint64` has four bits.
* `Collector`: rounds of two seconds and choose phases of one or two: long enough for
  two complete rounds and the trigger of each. Channels of capacity 1 are full at
  once. `MaxTime`, `MaxRequests`, `MaxVotes` and `MaxCrashes` bound the runs only;
  time ends, so deadlock is not checked there. `BitVotes` ends after the call.

### Fairness

`RoundLife`: weak fairness of every step a goroutine takes once it has started
something (the Go scheduler; a verifier call ends by its 5 s timeout; the queues
keep dequeuing), strong fairness of taking the round's lock in a handler, because
`sync.RWMutex` serves a waiting writer before later readers and a mutex is not
starved. No fairness of requests, of the consensus or of new calls.

`Collector`: weak fairness of time, of the indexer and of each of the four goroutines;
a listener's queries do not fail for ever. Nothing makes users emit requests, voters
vote, or a client start.

## 4. Proofs

`tlapm <module>.tla`; every obligation is proved by SMT, Zenon or LS4.

**TimingProofs.** `RoundOfTimestamp`: a timestamp belongs to exactly the round whose
collect phase contains it. `ChoosePhasesDisjoint`: choose phases do not overlap,
from the assumption that they are not longer than a round.
`NextChooseEndIsNext`: the first round whose choose phase ends at `t` or later.

**RoundLifeProofs**, for any number of requests, workers, attempts and calls. The
properties are about replies, which are given long after the state they depend on
was read, so none is inductive. The invariant `Inv` adds to `TypeOK`:

* `ConsensusInv`: outside of `setConsensusStatus` the flags are the bitVector, in it
  they are on the requests already visited; without a decision there are none; a
  finished computation never starts again;
* `TreeInv`: a tree that is not empty is the bitVector, and its round is finished;
* `QueueInv`: only supported requests are queued, handled or confirmed;
* `FspInv`, `DaInv`: what a call in progress has read is still true, or is of no use;
* `VoteInv`: before the decision a request that was counted is confirmed and has
  left its queue, so no worker can change its status.

From it: `TypeCorrect`, `SignedRootCorrect`, `SignsSupported`, `DaProofsCorrect`,
`TreeNeverChanges`, `BitVotesGrow`. On top of it, `EntryInv` (a request that was never
in the fast queue has no open entry once it is confirmed, so no late call of `Handle`
takes the confirmation back) and `RetryInv` (what the loop of the retry has passed is
confirmed or queued) give `NothingDropped` and `RetryComplete`.

**RoundSpecProofs**: `RoundRefinement`, `RoundLife` implements `RoundSpec`. The mapping
reads the abstract round off the bitVote, the flag, the tree and the answers. `Inv`
gives the guards of `Choose`, `Close`, `Build` and `Sign`; `Publish` needs that the tree
a `getAttestations` call holds is the one the round stores (`DaTreeInv`, from the
stability of the tree). Manager, FSP and DA have a simulation lemma each; workers and
`submit2` change nothing that `RoundSpec` speaks of.

**CollectorProofs**, for all durations, capacities, sets of voters without a faulty
majority, and bounds. `Inv` has four parts: `ChainInv` (what is on the chain has a
time that has come), `ListenerInv` (the windows of the queries fit, channel and
rounds are disjoint), `ChooseInv` (trigger, listener and channel hold rounds in
increasing order, each at one place), `CountInv` (a counted bitVote was in time,
and had the length of the round's known requests). `RequestsDelivered` follows from
`ListenerInv`. `ConsensusComplete` is a counting argument: more than half of the
voters are counted, so at least one of them is honest; the length of its bitVote is
the number of the round's requests on the chain, it was only accepted because the
client knew as many, and what the client knows is a subset of what is on the chain.
`BitVotesInTurn` rests on the disjointness of the choose phases.

Its second half has `TypeCorrect` and `VotesCounted` (`AllBitVotesCounted`): if
a round's bitVotes were read when all of its choose phase was in the database, and the
manager is done with them, every bitVote that may count has been counted. `TypeInv` is the
type invariant; `OnceInv` says that a round is served once, so that what was read of it is
not read again later; `SeenInv` follows the bitVotes from the query to the round: they are with
the listener, in the channel or counted, all of them or none.

**VerificationProofs**, for all types, requests, answers, LUTs and any number of clients: `NoPanicProved`,
`VerdictRightProved`, `HashAgreementProved`, `ResponseProvableProved`. The invariant
has three parts for each client: `PreparedInv` (before a verifier is asked, the request is long enough and
its type's configuration has been looked up), `SuccessInv` (a confirmed response is the last
answer, an encoding of the struct the MIC was made of, with the round written into it, and the hash is
of that), `VerdictInv` (what was answered before *Success* and *InvalidLUT*). `SuccessInv` makes response and
hash a function of the request, its type, its round, and the offset and length of the answer; so clients
agree if these are the same, and `EncodingsDiffer` says that two encodings of one struct with
different offsets or lengths are still different with the round written into them. The other
lemmas go through the slots: what an encoding decodes to (`Decoded`), that equal standard encodings
are of equal structs (`PackUnpack`), that a response that decodes to the struct is long enough for
every later access (`LongEnough`), and where the round is written (`RoundWritten`).

**PoliciesProofs**, for all durations, lengths of epochs, lags, delays, buffers and any number of
starts, epochs and voters. `RoundsKept` (`RoundKeptWhileNeeded`): a stored round has begun, and so
has a new one (`RoundsInv`), and two different rounds in one slot differ by at least
`RoundBuffer`; with `LateAssumption` the last message of the older one is over when the newer one
begins. The other direction, a late message that makes an old round replace a newer one,
is excluded by the same distance.

`PolicyArrives`, `OneAtATime`, `RightPolicy` and `NothingRefused` have the hypothesis `QuietStart`;
without it the first of them is false, which is what the run `PoliciesMissed` shows. They need one
invariant together (`PoliciesInv`), because what the manager may remove depends on what the listener
will still find and when:

* `ChainInv`: a policy is out more than `MinDelay` rounds before its first round, and not before
  the registration in the previous epoch is over, so policies are rare;
* `TimesInv`: the lag of the database and the number of failures in a row are bounded;
* `ListenerInv`: at most one policy of the chain is not yet found. It is the next one, its time is after
  `latestQuery`, and the query that finds it is due (`Awaited`) early enough: either within
  the lag, one period of the ticker and the failures after its emission, or at the start of
  the querying before the expected epoch. `PollingAssumption` makes both come before its first round;
* `ChannelInv`: a policy in the channel is the last one found, and no time passes while it is there;
  the initial ones reach back to every round that may get a message (`Covers`);
* `StoreInv`: the manager holds the policies without a gap up to the last one it was given,
  or a shutdown is scheduled for the end of the first collect phase of the missing one; the first one held
  still covers every round that may get a message, whatever `lastRoundCreated` was
  when `RemoveBefore` used it;
* `JudgedInv`: a stored round has the policy in force, or the client shuts down
  before that round's bitVotes are counted.

`AddAll` is a fold over a batch; that the fold exists and what it does to a batch without gaps
(`AddingExists`, `AddInitial`) is proved by hand with a least element, as in `Ballots`.

**BitVotesProofs**, for any number of voters and requests, all weights, fees and votes, and every
bound on the number of operations: `MajorityConfirmsChosenHolds`, `ErrorIffNoQuorumHolds`,
`OptimalIsOptimalHolds`, `FirstOptimalNeverWorseHolds`, `ReportedValueIsRealHolds`. The argument, in
the order of the module:

* sums: `SumOver` is a fold; that it exists and does not depend on the order is proved with
  a least set without it (`SumRemove`, `SumUnion`), and from that, sums over the classes of a partition
  (`SumClasses`) and over the places of a sequence (`SumPlaces`);
* the searches are functions of their nodes (`BitsSearch`, `VotesSearch`): a node only asks for nodes with
  a larger `branch`, and the least `k` for which no function exists on the last `k` branches leads to one;
* a node is a task: choose some of the bits (votes) that are left, with a weight and fees
  for each choice, never more than the node's (`BitsTask`, `VotesTask`, `Bounds`). A search
  solves its task (`Solves`): what it returns is a choice with a majority, its value is better than
  the bound it started with and is the new bound, and if the operations did not run out, no choice
  with a majority beats the new bound (`Exhausted`). Cutting, the leaf, a branch without majority and
  the join in both orders keep this (`SolvesCut`, `SolvesLeaf`, `SolvesNoMajority`,
  `SolvesExcludeFirst`, `SolvesIncludeFirst`);
* the answers of `BranchAndBoundBits` and `BranchAndBoundVotes`, maximized or not, are nothing or
  aggregated bits with a majority and their value, the best one if optimal (`BitsAnswer`, `VotesAnswer`);
* the sorts and `SetToSeq` put every element at one place (`RankEnumerates`, `sortFeesEnumerates`,
  `sortVotesEnumerates`);
* filters (`FilterResult`): bits that are out have no majority, votes that are out support nothing that
  is left, and the quorum is the same without them; aggregation (`AggVotesOK`, `AggBitsOK`): one vote or bit
  for each class;
* aggregated bits mean sets of requests: weight, fees and value are those of the set
  (`ChosenReal`), and every set with a majority is covered by aggregated bits that are worth at least as much
  (`MeetingCovers`, `NothingBetter`).

The invariant `Inv` then says of every solution in `sols`, `best` and `result` that it is real (`IsReal`):
its requests have a majority, its value is theirs or it is the empty solution, and an optimal
one is best among all sets of requests. The empty solution, which a search returns that finds
nothing better than its bound, is never reported as optimal, and no solution is worth less.

**BallotsProofs**, for any number of clients, logs, requests, batches, messages and any
`Base`: `LastVoteProved`, `GetRequestsProved`, `ConsensusInputProved`, `BitsMeanTheSameProved`.
The invariant:

* `ListInv`: the list of a client has each request of the logs it has added once, with the index of its
  first log in front and the fees of all of them; while a swap is half done, this is true
  of the list after the second write; when the logs arrive in order, no log before an
  added one is missing;
* `SentInv`: a bitVote on the chain that was given without a gap encodes the places of the
  meant requests in an order by first logs, of a set of logs without gaps;
* `CountInv`: what is kept of a voter is the last usable one of its messages processed so far,
  and none is missing;
* `InputInv`, `ServerInv`: the input of the algorithm has the order and the fees of the
  chain if all logs were there; what a `GetRequests` call that started since then has read is a beginning of it.

Two sets of logs without gaps number their common requests alike (`OrdersAgree`): a difference
would have a first position, and the request there would be the earliest of the remaining
ones in both. The provers cannot instantiate the library's induction theorems; these proofs
use a minimal element instead (`WFMin`), and the existence of the fold that sums fees is
proved by hand (`FeesStep`, `FeesRemove`).

`BitsMeanTheSameProved` has one hypothesis, `CodecRoundTrip`: decoding an encoded
bitVote gives the length and the bits it was made of. The codec is recursion over bytes and
powers, out of the provers' reach; TLC evaluates `CodecRoundTrip` for the constants
of the run.

Assumptions: `ConstantsAssumption`, `TimingAssumption`, `CollectorAssumption`,
`VerificationAssumption`, `InstancesAssumption` (weights, fees and the bound on
operations are positive, the voters' weights do not exceed the total), `PoliciesAssumption`, `LateAssumption` (a message is less late than
rounds are kept; 256 rounds of 90 s in the code), `PollingAssumption` (the lag of the database, a period of
the ticker of one round and the failures fit in the time between the emission of a policy and its
first round; the failures and the shift of reward epochs against rounds fit in the `startOffset` rounds by
which querying starts early), `HistoryAssumption` (messages of a round are over before the voters of the
next epoch are registered; the initial query asks for at least three policies, `Number: 3` in the code), `BallotsAssumption`, `LogsAssumption` and
`TxIndexesAssumption` (logs have distinct positions that agree with block and log index, or
block and transaction index: the order of the chain). TLC evaluates them in the runs
of their modules.

Only model-checked:

* liveness under fairness: `ChosenConfirmed`, `DaAnswered`, `RequestsReachRounds`,
  `RoundConcluded`;
* `CodecRoundTrip`.

## 5. What is not modelled

* The ABI and hash libraries (offsets are whole slots, and slots that do not belong to the struct are
  empty), HTTP, the JSON of the verifiers, parsing of
  configuration, logging, contract bindings.
* The two ABIs of the registration event and the addresses of the registries: there
  is an old and a new one.
* A voter with two submit addresses: bitVotes are kept by submit address, so both
  would count; `Policies` and `Ballots` have one per voter, as the registry does.
* Torn reads of a slice header in `GetRequests`: the handler reads the length twice and
  the elements one by one, each in one step.
* Requests for rounds that do not exist, and the checks of the endpoints' parameters.
* The rate limits of the queues; the two minutes of grace at a signal.
* Weights in `Collector`, wrap-around of `uint16` weights in `BitVotes` (the total
  weight of a signing policy is a `uint16` itself).
* How late the trigger reports a round after an outage; a status *Done* that a
  `getAttestations` call sets before the consensus is in `RoundLife` and shown to do
  no harm to what is signed, but it contradicts the comment on the status; that clients
  which count before they have all bitVotes or logs may disagree with the others.

## 6. Plan

Done, in this order because what is signed and published is what the client is for:
`RoundLife` with proofs, `BitVotes`, `Timing` and `Collector` with proofs; then
`RoundSpec` and the refinement with its proof, `Policies`, `Ballots`, `Verification`.

Then the theorems of `Verification`, `AllBitVotesCounted`, `RoundKeptWhileNeeded` and those of
`Ballots`, those of `Policies`, and last those of `BitVotes`, for which its searches were
rewritten from recursive operators to recursive functions.
