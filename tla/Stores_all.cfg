SPECIFICATION StoresSpec
CONSTANTS
  a = a  b = b  MaxLines = 3
  ChunkSize = 5  MinChunk = 2
  Transcripts = {1, 2}  ChunksOf <- MCChunksOf  LastVersion = 2  BatchSize = 1  MaxSessions = 1  FirstLimit = 1
  Writers = {1, 2}  Daemons = {TRUE, FALSE}  Overlap = FALSE  MaxMishaps = 2
  Paths <- MCPaths  SlugOf <- MCSlugOf  RegOps <- MCRegOps  RegProcs = {r1, r2}  NoProc = NoProc  NoSource = NoSource
  Unlocked = FALSE  MaxRegOps = 3
  EpTtl = 2  EpCapacity = 2  EpDecayAfter = 2  TurnSessions = {s1, s2}  MaxEpTime = 3  MaxEvents = 3  MaxPasses = 2
  GraphFiles = {"f", "g"}  Symbols <- MCSymbols  Batches <- MCBatches  Purgers = {t1, t2}  MaxGraphOps = 4
  VecTasks = {1, 2}  VecBatches <- MCVecBatches  VecQueries <- MCVecQueries  VecFilters <- MCVecFilters  NearTo <- MCNearTo
  IdleAfter = 1  StaleAfter = 2  NoFilter = NoFilter  MaxVecOps = 2  MaxVecTime = 3
  Kinds = {"fact", "preference", "lesson"}  Entries <- MCSurfaceEntries  NewTexts <- MCNewTexts
  Queries <- MCQueries  HandLines <- MCHandLines  SurfaceCap = 4  Strict = TRUE  MaxSurface = 6
  Publishers = {"t1", "t2", "c"}  ProcessOf <- MCProcessOf  BodyOf <- MCBodyOf  Together = FALSE
CHECK_DEADLOCK FALSE
INVARIANTS ArchiveHonest 
PROPERTIES Rearchived
