SPECIFICATION Spec
CONSTANTS
    Fem = FALSE
    Dppi = FALSE
    Errata172 = TRUE
    IrqLatency = FALSE
    Commands <- HciTests
    CountMod = 3
    MaxHeard = 3
INVARIANTS
    TypeOK
    LoopStoppedWhenIdle
    RadioOffWhenIdle
    UncodedIsPlain
    CountIsSound
    BufferOwned
    TransmitterArmed
PROPERTIES
    ImplementsSession
