SPECIFICATION Spec
CONSTANTS
    None = None
    Home <- MCHome
    Machines <- MCMachines
    Landmarks = {FALSE}
    Installed <- MCInstalled
    MotionOk = {FALSE}
    Wishes = {"hybrid"}
    Pins = {0}
    MaxActs = 1
    MaxOutages = 1
CHECK_DEADLOCK FALSE
INVARIANTS
    UnreadNotSaved
