CONSTANTS
  Req = {r1, r2, r3}
  Threshold = 2
  WindowSecs = 1
  OpenSecs = 2
  Ips = {ip1}
  Limit = 2
  Window = 2
  Faults = {"unreachable", "cut", "restart"}
SPECIFICATION FairSpec
INVARIANTS
  OpenAddsNoLoad
PROPERTIES
  UsesBreaker
  Recovery
