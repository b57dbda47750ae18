SPECIFICATION Spec
CONSTANTS
    None = None
    Home <- MCHome
    Machines <- MCMachines
    Landmarks = {FALSE}
    Installed <- MCInstalled
    MotionOk = {FALSE}
    Wishes = {"hybrid"}
    Pins = {0}
    MaxActs = 2
    MaxOutages = 1
CHECK_DEADLOCK FALSE
INVARIANTS
    TypeOK
    CacheWasHeld
    HeavyConfirmed
    PlanSound
    NewestIsShown
    ProtectedGranted
