CONSTANTS
  o1 = o1
  o2 = o2
  o3 = o3
  f1 = f1
  f2 = f2
  c1 = c1
  c2 = c2
  Ops = {o1, o2, o3}
  Fds = {f1}
  Pipes = {f1}
  FdOf <- OneFd
  CoroOf <- OneCoro
  Kind <- ClientKinds
  Count <- ClientBytes
  MaxInterrupts = 1
  MaxBlocks = 1
  NoOp = NoOp
SPECIFICATION Spec
INVARIANTS
  TypeOK
  SwitchedBeforeCallback
  ResumedComplete
  WaitingStaysRegistered
  OnceUnlessRaced
CHECK_DEADLOCK FALSE
