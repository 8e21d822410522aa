CONSTANTS
  d1 = d1
  d2 = d2
  d3 = d3
  NoDev = NoDev
  Devs = {d1, d2, d3}
  Ifaces <- Interfaces
  Addrs = {1, 2, 129}
  MaxCalls = 3
SPECIFICATION Spec
\* The bound on the lists ends a behaviour.
CHECK_DEADLOCK FALSE
INVARIANTS
  TypeOK
  RefsBalanced
  ClaimsKept
  SoleDeviceServed
