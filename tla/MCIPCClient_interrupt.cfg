\* An asynchronous exception may abort a recv() blocked waiting for the
\* helper; the next call on the same client then reads a stale reply.
CONSTANTS
    t1 = t1
    t2 = t2
    NoThread = NoThread
    Threads <- MCThreads
    PayLens <- MCPayLens
    MaxCalls = 2
    MaxInterrupts = 1
    HelperMayCrash = FALSE
    AsyncInterrupt = TRUE
    CloseDuringCall = TRUE
SPECIFICATION Spec
INVARIANT CallReturnsOwnResponse
