SPECIFICATION FairSpec
CONSTANTS
  Bundle <- MCBundle
  Launcher = "home"
  Ability <- MCServices
  BundleOf <- MCBundleOf
  AceAbility = {}
  None = None
  Client = {"app", "tool"}
  Conn = {"k"}
  PageToken <- MCPageToken
  LastPage = 3
  UsesContext = {"app"}
  Mortal = {"app"}
  Stoppable = {"Play"}
  Startable = {"Play"}
  Wanted <- MCWanted
  Visible <- AllVisible
  Unloadable = {}
  SpawnFailures <- AnyFailures
  Calm = TRUE
  MaxRequests = 4
  MaxCrashes = 1
INVARIANTS ConnectTypeOK PointersLive SettledServices ConnectionsAgree
PROPERTIES ConnectsAlternate Answered UnusedStops
CHECK_DEADLOCK FALSE
