\* spawn_helper / connect_to / close() with helper crashes; no socket() or kill-wait failures.
CONSTANTS
    Deadline = 3
    HelperMayCrash = TRUE
    SocketCreateMayFail = FALSE
    KillWaitMayTimeout = FALSE
SPECIFICATION Spec
INVARIANT NoOrphanHelper
INVARIANT NoStaleEndpoint
PROPERTY LifecycleStepsEnd
