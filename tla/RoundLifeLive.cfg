\* Chosen requests are confirmed whatever was in flight at the consensus, and
\* without submitSignatures every getAttestations call returns.
SPECIFICATION FairSpec
CONSTANTS
    N = 2
    Supported = {1, 2}
    MaxAttempts = 1
    MaxWorkers = 2
    Submit2 = TRUE
    Outcomes = {"Success"}
    Fsp = {}
    Da = {"d1"}
PROPERTIES
    ChosenConfirmed
    DaAnswered
