SPECIFICATION FairSpec
CONSTANTS
    Fem = FALSE
    Dppi = FALSE
    Errata172 = FALSE
    IrqLatency = TRUE
    Commands <- HciTests
    CountMod = 2
    MaxHeard = 1
PROPERTIES CallsReturn KeepsTransmitting
