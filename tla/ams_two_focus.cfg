SPECIFICATION Spec
CONSTANTS
  Bundle <- MC4Bundle
  Launcher = "home"
  Ability <- MC4Ability
  BundleOf <- MC4BundleOf
  MainAbility <- MC4MainAbility
  AceAbility = {}
  KeepAlive = {"home"}
  None = None
  Unloadable = {}
  BootSequence <- MCBoot
  SpawnFailures <- NoFailures
  Permits = {TRUE}
  QueueSize = 20
  MaxRequests = 4
  MaxCrashes = 0
  Overlap = FALSE
INVARIANTS FocusOnTop
CHECK_DEADLOCK FALSE
