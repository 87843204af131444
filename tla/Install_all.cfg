SPECIFICATION SetupSpec
CONSTANTS
  k1 = k1  k2 = k2  h1 = h1  h2 = h2
  TemplateKeys = {k1, k2}  Ships <- MCShips  Releases <- MCReleases  HookEvents = {"Stop", "SessionEnd"}  Hooked <- MCHooked
  Sites <- MCSites  Hands = {h1}  InstallOps <- MCInstallOps  FirstFiles <- MCFirstFiles
  Gone = Gone  Half = Half  NoValue = NoValue
  MaxOps = 2  MaxHands = 1  MaxInstallKills = 1
  Pages <- MCPages  MaxSyncs = 2  MaxSyncKills = 1
  BootWorkers = {w1, w2, w3}  NoBoot = NoBoot  MaxBootFails = 2
CHECK_DEADLOCK FALSE
INVARIANTS EditsSurvive  
PROPERTIES Bootstrapped
