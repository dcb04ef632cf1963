CONSTANTS
    RaijuMin = 1
    RaijuMax = 3
    Bootstrap = 2
    Stable = 2
    Validation = 2
    Settling = 1
    Cooldown = 1
    Reprobe = 2
    Capacities = {2, 3}
    Backlog = 3
SPECIFICATION Spec
INVARIANTS
    TypeOK
    ExperimentIsSerial
PROPERTIES
    BlockIsServed
    GrowthIsMeasured
