\* A policy that the database does not have yet when the client starts.
SPECIFICATION Spec
CONSTANTS
    T0 = 1
    CollectDurationSec = 2
    ChooseDurationSec = 1
    T0RewardDelay = 0
    RewardEpochLength = 3
    Voters = {"v1", "v2"}
    Registrations <- SomeRegistrations
    BreakingEpoch = 0
    InitialPolicies = 3
    VotersCap = 3
    RoundBuffer = 3
    MinDelay = 1
    Registration = 2
    Early = 3
    MaxLag = 1
    Late = 1
    QuietStart = FALSE
    MaxTime = 10
    MaxPolicies = 2
    MaxStarts = 1
    MaxFails = 0
INVARIANT
    PolicyInTime
CHECK_DEADLOCK FALSE
