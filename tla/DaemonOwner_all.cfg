SPECIFICATION Spec
CONSTANTS
  p1 = p1  p2 = p2  k1 = k1
  Singles = {p1, p2}
  Clis = {k1}
  Service = Service
  NoProc = NoProc
  MayDie = TRUE
  Scopes <- Mixed
SYMMETRY Sym
CHECK_DEADLOCK FALSE
INVARIANTS TypeOK OwnerNamed OneFrontDoor PeersServe RegistryFollowed
