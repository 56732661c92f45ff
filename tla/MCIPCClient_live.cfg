\* Two threads, two calls each; the helper may crash and close() may run
\* under a call; no asynchronous exceptions.
CONSTANTS
    t1 = t1
    t2 = t2
    NoThread = NoThread
    Threads <- MCThreads
    PayLens <- MCPayLens
    MaxCalls = 2
    MaxInterrupts = 1
    HelperMayCrash = TRUE
    AsyncInterrupt = FALSE
    CloseDuringCall = TRUE
SPECIFICATION Spec
PROPERTY CallCompletes
PROPERTY ImplementsSerialRPC
