\* Wrappers over a backend whose helper may die or be closed and respawned.
CONSTANTS
    f1 = f1
    f2 = f2
    c1 = c1
    s1 = s1
    r1 = r1
    Objs <- MCObjsSrc
    KindOf <- MCKindOfSrc
    MaxGens = 2
    MaxHandles = 3
    HelperMayCrash = TRUE
    BackendMayClose = TRUE
SPECIFICATION Spec
INVARIANT ReleasedAtMostOnce
INVARIANT ClosableNoUseAfterRelease
