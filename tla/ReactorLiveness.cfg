CONSTANTS
  o1 = o1
  o2 = o2
  o3 = o3
  f1 = f1
  f2 = f2
  c1 = c1
  c2 = c2
  Ops = {o1, o2}
  Fds = {f1, f2}
  Pipes = {}
  FdOf <- OwnFds
  CoroOf <- TwoCoros
  Kind <- ServerKinds
  Count <- ServerBytes
  MaxInterrupts = 0
  MaxBlocks = 1
  NoOp = NoOp
SPECIFICATION FairSpec
PROPERTY AcceptedResumed
CHECK_DEADLOCK FALSE
