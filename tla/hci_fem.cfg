SPECIFICATION Spec
CONSTANTS
    Fem = TRUE
    Dppi = TRUE
    Errata172 = FALSE
    IrqLatency = FALSE
    Commands <- HciTests
    CountMod = 4
    MaxHeard = 2
INVARIANTS LoopStoppedWhenIdle ReceiverIsSilent BufferOwned TransmitterArmed
