\* Two threads, two calls each, payloads of 0..2 bytes; the helper may
\* crash, close() may run under a call, and an exception may abort a call
\* blocked in recv().
CONSTANTS
    t1 = t1
    t2 = t2
    NoThread = NoThread
    Threads <- MCThreads
    PayLens <- MCPayLensSplit
    MaxCalls = 2
    MaxInterrupts = 1
    HelperMayCrash = TRUE
    AsyncInterrupt = TRUE
    CloseDuringCall = TRUE
SPECIFICATION Spec
INVARIANT TypeOK
INVARIANT OnlyInterruptsMisroute
