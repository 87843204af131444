SPECIFICATION ToolsSpec
CONSTANTS
  Ids = {1, 2, 3, 4, 5}  Segs <- MCSegs  PathOf <- MCPathOf  LinesOf <- MCLinesOf  ModuleId <- MCModuleId  EventIds = {2}
  TaintSources = {1, 4}  TaintSinks = {2, 3}  EdgeMenu <- MCEdges  DiffMenu <- MCDiff  MaxDiff = 5  MaxDepth = 2
  ChunkIds = {1, 2, 3, 4, 5}  FileOfChunk <- MCFile  SymbolOf <- MCSym  Prose = {5}  BodyLines <- MCBody  NearSymbol <- MCNear
  SymMenu <- MCSymMenu  FtsMenu <- MCFtsMenu  ProseMenu <- MCProseMenu  VecMenu <- MCVecMenu
  RecallQueries <- MCQueries  ModelReplies <- MCReplies  NoReply = NoReply  RenderBudgets <- MCBudgets
  LineKinds = {"doc", "mod", "note", "attr", "blank", "open", "star", "close", "quote", "quoted", "def", "code"}
  MaxFileLines = 4  Lookback = 3
  PipeRoom = 1  OutputCap = 1  MaxChunks <- MCMaxChunks  Statuses = {0, 1}  SpawnFails = TRUE
  Keep <- MCKeep  Builtins <- MCBuiltins  KnownCommands <- MCKnown  GapWidth = 5  TimesWidth = 3  Slack = 4
  LineMenu <- MCLines  Tokens <- MCTokens  Foreign <- MCForeign  Scripts <- MCScripts
  MaxLinesPrinted = 4  MaxTokens = 4  MaxEntries = 3
  Projects = {"A", "B"}  Pages = {w1, w2}  Patches <- MCPatches  CliWrites <- MCCli  LayerStarts <- MCStarts
  Racing = FALSE  MaxEdits = 1  MaxPatches = 2
CHECK_DEADLOCK FALSE
INVARIANTS  FrontsHonest
PROPERTIES CaptureEnds
