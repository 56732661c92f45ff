\* Two concurrent spawns on Linux, every CC_HELPER_PATH setting and
\* installation, time_ns taking two values.
CONSTANTS
    t1 = t1
    t2 = t2
    NoThread = NoThread
    Threads <- MCThreads
    Windows = FALSE
    UserDirProbed = TRUE
    MaxClock = 1
SPECIFICATION Spec
INVARIANT ConnectsToOwnHelper
INVARIANT OwnEndpointKept
PROPERTY ImplementsSocketCounter
