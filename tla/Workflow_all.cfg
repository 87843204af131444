SPECIFICATION WorkflowSpec
CONSTANTS
  taskA = taskA  taskB = taskB  outside = outside  edge1 = edge1  test1 = test1  e2e1 = e2e1  proc1 = proc1  ad1 = ad1  ad2 = ad2  memory = memory  golang = golang  old = old  lost = lost
  NoId = NoId  Unread = Unread
  MaxWaves = 4
  DesignSpecs <- MCDesignSpecs
  TestSpecs <- MCTestSpecs
  Plans <- MCPlans
  Files <- MCFiles
  SkippedDirs = {"target"}
  TailOf <- MCTailOf
  Refs <- MCRefs
  Commits <- MCCommits
  Procs = {proc1}  Addons = {ad1, ad2}  Commands <- MCCommands
  Words = {"full", "balanced", "minimal", "unset", "claude", "codex", "go"}
  MaxCommands = 3  MaxKills = 1  Overlap = FALSE
  Sheets <- MCSheets  OwnSheets <- MCOwnSheets  Spelling <- MCSpelling  TaskTypes = {"impl", "research"}  Roles = {"impl", "readonly"}
  Absent = Absent  Torn = Torn  Starts <- MCStarts
  NoLayer = NoLayer  TornLayer = TornLayer  NoStamp = NoStamp
  LayerStarts <- MCLayerStarts  RuleSet <- MCRuleSet  DefaultRules <- MCDefaultRules
  Edits <- MCEdits  Calls <- MCCalls
  MaxEdits = 2  MaxEditKills = 1  Meanwhile = FALSE
  SessionNames <- MCSessionNames  MaxDup = 3  Patches <- MCPatches  FirstState <- MCFirstState
  Servers = {"s1", "s2"}  Docs <- MCDocs  Blocks <- MCBlocks
  NoFile = NoFile  Broken = Broken  MaxWork = 3  MaxWorkKills = 1
CHECK_DEADLOCK FALSE
INVARIANTS   ConfigAsAsked VerdictExact 
PROPERTIES TaskOrderKept
