SPECIFICATION Spec
CONSTANTS
    home = home  js1 = js1  js2 = js2  nat = nat
    MultiTasks = FALSE
    App <- MCApp
    Startup = home
    Main = {}
    NativeApps = {nat}
    Temporary = {js2}
    Unknown = {}
    Refused = {}
    Pathless = {}
    NativeLauncher = TRUE
    Capacity = 4
    TokenLimit = 2
    MissionLimit = 2
    QueueSize = 6
    Requests <- MCSingleRequests
    Failures <- MCNone
    Overlap = FALSE
    MaxRequests = 6
INVARIANTS OneTaskBesideHome SettledHome
CHECK_DEADLOCK FALSE
PROPERTY KeepsPromise
