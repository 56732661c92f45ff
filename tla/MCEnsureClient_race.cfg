\* Two threads make one operation each on a fresh backend; nobody closes
\* it and spawning succeeds.
CONSTANTS
    t1 = t1
    t2 = t2
    c1 = c1
    c2 = c2
    c3 = c3
    None = None
    Threads <- MCThreads
    Clients <- MCClients
    MaxOps = 1
    CloseRacer = FALSE
    SpawnMayFail = FALSE
SPECIFICATION Spec
INVARIANT ServedHelperKept
