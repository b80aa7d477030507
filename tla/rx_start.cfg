SPECIFICATION Spec
CONSTANTS
    Fem = FALSE
    Dppi = FALSE
    Errata172 = FALSE
    IrqLatency = FALSE
    Commands <- HciTests
    CountMod = 4
    MaxHeard = 2
INVARIANTS ReceiverArmed
