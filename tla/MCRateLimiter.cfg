SPECIFICATION Spec
CONSTANTS
    t1 = t1
    t2 = t2
    k1 = k1
    k2 = k2
    None = None
    Threads <- MCThreads
    Keys <- MCKeys
    Limits <- MCLimits
    WindowSeconds = 1
    TicksPerSecond = 2
    CleanupEvery = 3
    MaxTime = 5
INVARIANTS
    TypeOK
    AdmissionsWithinLimit
    SweepForgetsIdleKeys
PROPERTIES
    GlobalWindowSlides
    KeyWindowsSlide
    VerdictMatchesHistory
    ResetTracksOldest
VIEW WithoutVerdict
SYMMETRY Symmetry
