\* Two clients, a static and a dynamic type, uint64 with 4 bits.
SPECIFICATION Spec
SYMMETRY ClientSymmetry
CONSTANTS
    T0 = 0
    CollectDurationSec = 2
    ChooseDurationSec = 1
    Clients = {c1, c2}
    Rounds = {1}
    Requests <- SomeRequests
    AttestationTypesConfigs <- Configs
    Structs <- SomeStructs
    Offsets = {0, 1, 4}
    Lengths = {3, 5, 6, 9}
    MaxUint64 = 15
    None = None
    StaticType = StaticType
    DynamicType = DynamicType
    OtherType = OtherType
    Chain = Chain
    OtherChain = OtherChain
    B1 = B1
    B2 = B2
INVARIANTS
    NoPanic
    HashAgreement
    ResponseProvable
    VerdictRight
CHECK_DEADLOCK FALSE
