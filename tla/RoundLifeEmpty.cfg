\* submitSignatures overlaps ComputeConsensusBitVote.
SPECIFICATION Spec
CONSTANTS
    N = 1
    Supported = {1}
    MaxAttempts = 1
    MaxWorkers = 1
    Submit2 = TRUE
    Outcomes = {"Success"}
    Fsp = {"f1"}
    Da = {}
INVARIANT
    EmptyOnlyWithoutConsensus
