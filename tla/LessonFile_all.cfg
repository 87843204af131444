SPECIFICATION FairSpec
CONSTANTS
  p1 = p1  p2 = p2  t1 = t1  t2 = t2  a1 = a1  a2 = a2
  NoProc = NoProc
  Procs = {p1, p2}
  Hung = {p2}
  Triggers = {t1, t2}
  Advices = {a1, a2}
  Seed <- OneSeed
  Reports <- OneReport
  Ops = {"feedback", "remember", "forget", "edit", "append"}
  LockMayFail = TRUE
  Mortal = {p1}
  Cap = 1
  MaxFeedback = 2
  MinAttempts = 1
  FloorPct = 20
  QuarMinAttempts = 1
  QuarPct = 66
CHECK_DEADLOCK FALSE
INVARIANTS TypeOK CountsHonest
PROPERTIES LedgerKept QuarantineKeepsCopy OnlyStaleRewritesLose CallsReturn
