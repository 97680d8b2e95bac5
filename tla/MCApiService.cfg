CONSTANTS
  Tables <- MCTables
  Secrets = {k1, k2, dev, empty}
  DevSecret = dev
  EmptySecret = empty
  NoKey = NoKey
  Sources <- MCSources
  Backends <- MCBackends
  Users = {u1}
  Roles <- MCRoles
  ACCESS_EXPIRE = 1
  REFRESH_EXPIRE = 2
  MaxTokens = 3
  Requests = {r1}
  Routes <- MCRoutes
  Nobody = Nobody
SPECIFICATION Spec
INVARIANTS
  AuditTellsTruth
  AgentKnowsItsTables
PROPERTY GrantsAreFresh
