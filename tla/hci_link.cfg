\* The tester stops sending when its command stays out, after a lost answer or a
\* line error, and then nothing is left to do: no deadlock check.
CONSTANTS
    Builds <- MCBuilds
    Shapes <- MCShapes
    Others <- MCOthers
    MaxOthers = 2
    QueueCount = 3
    QueueSize = 5
    MaxIqs = 3
SPECIFICATION Spec
INVARIANT PacketsIntact
INVARIANT NeverOutOfBuffers
INVARIANT EventsKept
PROPERTY ImplementsLink
CHECK_DEADLOCK FALSE
