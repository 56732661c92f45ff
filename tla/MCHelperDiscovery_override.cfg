\* Two spawns on Linux with every CC_HELPER_PATH setting and installation:
\* an override naming no file does not end the search.
CONSTANTS
    t1 = t1
    t2 = t2
    NoThread = NoThread
    Threads <- MCThreads
    Windows = FALSE
    UserDirProbed = TRUE
    MaxClock = 1
SPECIFICATION Spec
INVARIANT OverrideShortCircuits
