SPECIFICATION Spec
CONSTANTS
    None = None
    Home <- MCHome
    Machines <- MCMachines
    Landmarks = {FALSE}
    Installed <- MCInstalled
    MotionOk = {FALSE}
    Wishes = {"hybrid"}
    Pins = {0}
    MaxActs = 2
    MaxOutages = 0
CHECK_DEADLOCK FALSE
PROPERTIES
    CosmeticStaysCosmetic
