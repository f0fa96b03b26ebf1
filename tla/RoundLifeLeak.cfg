\* As RoundLifeLive, with submitSignatures.
SPECIFICATION FairSpec
CONSTANTS
    N = 1
    Supported = {1}
    MaxAttempts = 1
    MaxWorkers = 1
    Submit2 = TRUE
    Outcomes = {"Success"}
    Fsp = {"f1"}
    Da = {"d1"}
PROPERTY
    DaAnswered
