SPECIFICATION Spec
CONSTANTS
    Fem = TRUE
    Dppi = FALSE
    Errata172 = FALSE
    IrqLatency = FALSE
    Commands <- CoreCommands
    CountMod = 2
    MaxHeard = 3
INVARIANTS LoopStoppedWhenIdle RadioOffWhenIdle BufferOwned
