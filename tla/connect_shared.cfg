SPECIFICATION Spec
CONSTANTS
  Bundle <- MCBundle
  Launcher = "home"
  Ability <- MCServices
  BundleOf <- MCBundleOf
  AceAbility = {}
  None = None
  Client = {"app", "tool"}
  Conn = {"k1", "k2"}
  PageToken <- MCPageToken
  LastPage = 3
  UsesContext = {"app"}
  Mortal = {}
  Stoppable = {}
  Startable = {}
  Wanted <- MCWanted
  Visible <- AllVisible
  Unloadable = {"Scan"}
  SpawnFailures <- NoFailures
  Calm = TRUE
  MaxRequests = 2
  MaxCrashes = 0
PROPERTIES CallbackGoesHome
CHECK_DEADLOCK FALSE
