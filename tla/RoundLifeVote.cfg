\* Bit voting, the consensus and the retry against the queue workers, with a
\* getAttestations call that may come before the consensus.
SPECIFICATION Spec
CONSTANTS
    N = 2
    Supported = {1, 2}
    MaxAttempts = 2
    MaxWorkers = 2
    Submit2 = TRUE
    Outcomes = {"Success", "Unconfirmed", "ProcessError"}
    Fsp = {}
    Da = {"d1"}
INVARIANTS
    NotDroppedBeforeConsensus
    RetryCoversChosen
PROPERTY
    BitVoteGrows
