CONSTANTS
  h1 = h1
  Hosts = {h1}
  Ports = {8080}
  Garbage = Garbage
  Sockets = {a, s, t, b}
  Acceptors = {a, b}
  Fds = {f1, f2}
  NoFd = NoFd
  NoSocket = NoSocket
  Callers = {"coro", "thread"}
  Errnos = {"EADDRINUSE", "EINVAL"}
  Transfers = {"write", "read_until"}
  MaxEffects = 5
  MoveTargets = {t, b}
  Inputs <- SomeTexts
SYMMETRY FdSymmetry
SPECIFICATION Spec
INVARIANTS
  TypeOK
  OwnedOnce
  FlagsTrue
  
  EndpointFaithful
PROPERTY FailureChangesNothing
CHECK_DEADLOCK FALSE
