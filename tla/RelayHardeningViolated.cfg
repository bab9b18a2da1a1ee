SPECIFICATION FairSpec
CONSTANTS
  s1 = s1
  h1 = h1
  h2 = h2
  h3 = h3
  Values = {s1, h1}
  Undefined = Undefined
  Empty = Empty
  NoRecord = NoRecord
  None = None
  Scopes = {"slaif.relay", "slaif.launch"}
  IdKeys = {"sessionId", "hpc"}
  MetaKeys = {"hpc"}
  MaxUsesLimit = 3
  Token = {t1}
  Ttls = {1}
  UseCounts = {3}
  IssueArgs <- SessionTokens
  MaxTime = 0
  MaxIssues = 1
  Conn = {c1, c2}
  MaxAuthMessages = 2
  AllowedHosts = {h1}
  MaxConnectionsPerSession = 1
  RelayExpected <- MCRelayExpected
PROPERTIES LimitOrLifetime
