SPECIFICATION FairSpec
CONSTANTS
  Bundle <- MCBundle
  Launcher = "home"
  Ability <- MCAbility
  BundleOf <- MCBundleOf
  MainAbility <- MCMainAbility
  AceAbility = {}
  KeepAlive = {"home", "mail"}
  None = None
  Unloadable = {}
  BootSequence <- MCBoot2
  SpawnFailures <- NoFailures
  Permits = {TRUE}
  QueueSize = 20
  MaxRequests = 5
  MaxCrashes = 1
  Overlap = FALSE
INVARIANTS PointersLive OneActive SettledCoherent
PROPERTIES StartKeepsPages StartServed TerminateServed Quiesces
CHECK_DEADLOCK FALSE
