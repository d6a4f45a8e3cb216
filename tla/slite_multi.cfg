SPECIFICATION FairSpec
CONSTANTS
    home = home  js1 = js1  js2 = js2  nat = nat
    MultiTasks = TRUE
    App <- MCApp
    Startup = home
    Main = {}
    NativeApps = {home, nat}
    Temporary = {js2}
    Unknown = {}
    Refused = {}
    Pathless = {}
    NativeLauncher = FALSE
    Capacity = 3
    TokenLimit = 5
    MissionLimit = 2
    QueueSize = 3
    Requests <- MCMultiRequests
    Failures <- MCFailures
    Overlap = TRUE
    MaxRequests = 3
INVARIANTS SliteTypeOK NoDangling OneTaskBesideHome OneMessage SettledTop ObserverAgrees
PROPERTIES KeepsPromise HeldBackRuns
CHECK_DEADLOCK FALSE
