SPECIFICATION Spec
CONSTANTS
    TesterCmds <- McTesterCmds
    Channels <- McChannels
    Lengths <- McLengths
    Powers <- McPowers
    Counts <- McCounts
    DirectionFinding = FALSE
INVARIANTS ReceivesOnChannel
