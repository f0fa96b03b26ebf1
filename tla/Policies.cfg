\* Three reward epochs, a lagging database, a failed query, a start at any time.
SPECIFICATION Spec
CONSTANTS
    T0 = 1
    CollectDurationSec = 2
    ChooseDurationSec = 1
    T0RewardDelay = 0
    RewardEpochLength = 3
    Voters = {"v1", "v2"}
    Registrations <- SomeRegistrations
    BreakingEpoch = 0
    InitialPolicies = 3
    VotersCap = 3
    RoundBuffer = 3
    MinDelay = 1
    Registration = 2
    Early = 3
    MaxLag = 1
    Late = 1
    QuietStart = TRUE
    MaxTime = 14
    MaxPolicies = 3
    MaxStarts = 1
    MaxFails = 1
INVARIANTS
    ConsensusUnderRightPolicy
    PolicyInTime
    NoMessageRefused
    OnePolicyPerQuery
PROPERTY
    RoundKeptWhileNeeded
CHECK_DEADLOCK FALSE
