CONSTANTS
  o1 = o1
  o2 = o2
  o3 = o3
  f1 = f1
  f2 = f2
  c1 = c1
  c2 = c2
  Ops = {o3}
  Fds = {f1}
  Pipes = {}
  FdOf <- OneFd
  CoroOf <- OneCoro
  Kind <- ClientKinds
  Count <- ClientBytes
  MaxInterrupts = 0
  MaxBlocks = 0
  NoOp = NoOp
SPECIFICATION Spec
INVARIANT ReturnedItemUnused
CHECK_DEADLOCK FALSE
