\* socket.socket() may fail inside the poll loop.
CONSTANTS
    Deadline = 3
    HelperMayCrash = TRUE
    SocketCreateMayFail = TRUE
    KillWaitMayTimeout = FALSE
SPECIFICATION Spec
INVARIANT NoOrphanHelper
