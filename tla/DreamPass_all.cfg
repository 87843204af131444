SPECIFICATION Spec
CONSTANTS
  h1 = h1  h2 = h2  b1 = b1  b2 = b2  d1 = d1  c1 = c1
  Heads = {h1, h2}
  Bodies = {b1, b2}
  NoText = NoText
  Procs = {c1}
  Daemons = {}
  CliOpts <- FewOpts
  Modes = {"auto","review"}
  MinEntries = 2
  Seed <- SeedTwins
  Answers <- FewAnswers
  Additions <- AddMemory
  MaxRemoved = 1
  Failing = {"surface", "marker"}
  MayCrash = TRUE
  MaxOmitted = 1
  MaxPasses = 2
  MaxTicks = 1
CHECK_DEADLOCK FALSE
INVARIANTS TypeOK NothingLost JudgedHonestly
