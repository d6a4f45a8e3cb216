SPECIFICATION Spec
CONSTANTS
  Bundle <- MCBundle
  Launcher = "home"
  Ability <- MCAbility
  BundleOf <- MCBundleOf
  MainAbility <- MCMainAbility
  AceAbility = {}
  KeepAlive = {"home"}
  None = None
  Unloadable = {}
  BootSequence <- MCBoot
  SpawnFailures <- NoFailures
  Permits = {TRUE}
  QueueSize = 20
  MaxRequests = 4
  MaxCrashes = 0
  Overlap = FALSE
INVARIANTS NoDangling
CHECK_DEADLOCK FALSE
