\* IPCBackend.close() followed by further use of older wrappers.
CONSTANTS
    f1 = f1
    f2 = f2
    c1 = c1
    s1 = s1
    r1 = r1
    Objs <- MCObjs
    KindOf <- MCKindOf
    MaxGens = 2
    MaxHandles = 3
    HelperMayCrash = FALSE
    BackendMayClose = TRUE
SPECIFICATION Spec
INVARIANT NoForeignRelease
