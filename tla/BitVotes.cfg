\* Three voters and requests with all small weights and fees; four of each.
SPECIFICATION Spec
CONSTANT
    Instances <- SmallInstances
INVARIANTS
    MajorityConfirmsChosen
    ErrorIffNoQuorum
    OptimalIsOptimal
    FirstOptimalNeverWorse
    ReportedValueIsReal
CHECK_DEADLOCK FALSE
