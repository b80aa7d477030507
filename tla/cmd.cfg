SPECIFICATION Spec
CONSTANTS
    TesterCmds <- McTesterCmds
    Channels <- McChannels
    Lengths <- McLengths
    Powers <- McPowers
    Counts <- McCounts
    DirectionFinding = TRUE
INVARIANTS TypeOK ReportsAreReports CountOnlyInReceiver
PROPERTIES RefusalIsHarmless
