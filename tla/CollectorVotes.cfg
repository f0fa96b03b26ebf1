\* One choose phase, an honest and a faulty voter, on- and off-chain trigger.
SPECIFICATION Spec
CONSTANTS
    T0 = 1
    CollectDurationSec = 2
    ChooseDurationSec = 1
    Voters = {"h", "f"}
    Faulty = {"f"}
    OffChain = 0
    HeadStart = 1
    Tolerance = 2
    RequestsCap = 1
    BitVotesCap = 1
    QueriesFail = TRUE
    MaxTime = 5
    MaxRequests = 1
    MaxVotes = 2
    MaxCrashes = 0
INVARIANTS
    ConsensusOnAllRequests
    NoForeignBitVotes
CHECK_DEADLOCK FALSE
