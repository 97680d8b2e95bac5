CONSTANTS
  Callers = {c1, c2}
  Ips = {ip1, ip2}
  Limit = 2
  Window = 2
  Faults = {"unreachable", "cut", "restart", "snapshot"}
SPECIFICATION ClientsSpec
INVARIANTS
  KeyCoversWindow
  AtMostLimitPerWindow
PROPERTY
  QuietClientAdmitted
