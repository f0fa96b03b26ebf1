\* One honest voter: failing queries, a full channel, a crash, a second bitVote.
SPECIFICATION FairSpec
CONSTANTS
    T0 = 1
    CollectDurationSec = 2
    ChooseDurationSec = 2
    Voters = {"h"}
    Faulty = {}
    OffChain = 1
    HeadStart = 1
    Tolerance = 2
    RequestsCap = 1
    BitVotesCap = 1
    QueriesFail = TRUE
    MaxTime = 5
    MaxRequests = 2
    MaxVotes = 2
    MaxCrashes = 1
INVARIANTS
    TypeOK
    RequestsExactlyOnce
    AllBitVotesCounted
PROPERTIES
    RequestsReachRounds
    RoundConcluded
CHECK_DEADLOCK FALSE
