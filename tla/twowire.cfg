CONSTANTS
    Transports <- MCTransports
    Delay = 5
    Gap = 2
    Spread = 3
    Pause = 10
    MaxLost = 3
SPECIFICATION Spec
INVARIANT WholeCommands
INVARIANT EachWaitIsOneCycle
PROPERTY Answered
