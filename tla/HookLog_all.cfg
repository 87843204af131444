SPECIFICATION FairSpec
CONSTANTS
  s1 = s1  s2 = s2  s3 = s3  f1 = f1  f2 = f2
  Nobody = Nobody
  Sessions = {s1, s2, s3}
  Anonymous = {s3}
  Files = {f1, f2}
  SamePath <- Reflexive
  Scopes <- AllScopes
CHECK_DEADLOCK FALSE
INVARIANTS TypeOK WorkCounts GateBacked SignalsHeld
PROPERTIES StopLetsGo
