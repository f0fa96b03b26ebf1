\* Two clients, three logs of two requests, repeated and unusable bitVotes.
SPECIFICATION Spec
CONSTRAINT Combinations
CONSTANTS
    Logs <- SomeLogs
    Clients = {"v", "k"}
    Counter = "k"
    SubmitToSigning <- Submit
    VoterWeight <- Weights
    Noise <- SomeNoise
    TxIndexes <- SomeTxIndexes
    Base = 2
    MaxServed = 2
INVARIANTS
    BitsMeanTheSame
    ConsensusInputCorrect
    LastValidVoteCounts
    GetRequestsExact
CHECK_DEADLOCK FALSE
