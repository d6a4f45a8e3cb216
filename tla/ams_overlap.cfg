SPECIFICATION Spec
CONSTANTS
  Bundle <- MCBundle
  Launcher = "home"
  Ability <- MCAbility
  BundleOf <- MCBundleOf
  MainAbility <- MCMainAbility
  AceAbility = {"Cart"}
  KeepAlive = {"home", "mail"}
  None = None
  Unloadable = {"Compose"}
  BootSequence <- MCBoot
  SpawnFailures <- AnyFailures
  Permits = {TRUE, FALSE}
  QueueSize = 4
  MaxRequests = 3
  MaxCrashes = 1
  Overlap = TRUE
INVARIANTS TypeOK   RecordTracksAbility 
CHECK_DEADLOCK FALSE
