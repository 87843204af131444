SPECIFICATION Spec
CONSTANTS
  f1 = f1  f2 = f2  x1 = x1  t1 = t1  r1 = r1  r2 = r2  m1 = m1
  Code = {}
  Text = {x1}
  NoFile = NoFile
  Ranges = {r1, r2}
  LinesOf <- Lines
  Topics = {}
  LinksOf <- Linked
  Modules = {m1}
  ImportsOf <- Imported
  RunWorkers = {w1}
  Watcher = Watcher
  Watching = TRUE
  Scopes <- OneFile
  MaxContent = 2
CHECK_DEADLOCK FALSE
INVARIANT HashIsAuthoritative
