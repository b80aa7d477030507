SPECIFICATION Spec
CONSTANTS
    Commands <- McCommands
    PowerTable <- McPowers
    MaxPattern = 2
    SwitchEntries = 5
    CountMod = 2
    MaxHeard = 3
INVARIANTS
    AntennasSwitchAsAsked
CHECK_DEADLOCK FALSE
