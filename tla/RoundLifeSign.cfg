\* submitSignatures and getAttestations calls race over a round, again and again.
\* Request 3 has no verifier.
SPECIFICATION Spec
CONSTANTS
    N = 3
    Supported = {1, 2}
    MaxAttempts = 1
    MaxWorkers = 2
    Submit2 = FALSE
    Outcomes = {"Success", "Unconfirmed"}
    Fsp = {"f1"}
    Da = {"d1"}
INVARIANTS
    TypeOK
    SignedRootMatchesConsensus
    SignsOnlySupported
    DaProofsMatchConsensus
PROPERTIES
    TreeStable
    ImplementsRound
