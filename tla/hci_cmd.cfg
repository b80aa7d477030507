SPECIFICATION Spec
CONSTANTS
    Commands <- McCommands
    PowerTable <- McPowers
    MaxPattern = 2
    SwitchEntries = 5
    CountMod = 2
    MaxHeard = 3
INVARIANTS
    TypeOK
    AnsweredOnce
    RunsAsAsked
    NearestPower
    StatusIsTrue
    CteIsComplete
    IqReportIsOfTheTest
PROPERTIES
    CountIsOfTheTest
CHECK_DEADLOCK FALSE
