SPECIFICATION FairSpec
CONSTANTS
    c1 = c1
    c2 = c2
    rgb0 = rgb0
    ir0 = ir0
    cuda = cuda
    None = None
    Clients = {c1, c2}
    Requests <- MCRequests
    Machines <- MCMachines
    Preference <- MCPreference
    Devices = {rgb0, ir0}
    Mono = {ir0}
    CliDevice = rgb0
    CliIr = None
    Backlog = 0
    MaxLines = 1
    MaxLives = 2
CHECK_DEADLOCK FALSE
INVARIANTS
    TypeOK
    CamerasOnlyAsAsked
    AnsweredInOrder
    AutoSpectrum
PROPERTIES
    DriversCostSpeedOnly
    QueueDrains
    CamerasReleased
