SPECIFICATION Spec
CONSTANTS
  s1 = s1
  h1 = h1
  h2 = h2
  h3 = h3
  Values = {s1, h1, h2, h3}
  Undefined = Undefined
  Empty = Empty
  NoRecord = NoRecord
  None = None
  Scopes = {"slaif.relay", "slaif.launch"}
  IdKeys = {"sessionId", "hpc"}
  MetaKeys = {"hpc"}
  MaxUsesLimit = 2
  Token = {t1, t2}
  Ttls = {1}
  UseCounts = {2}
  IssueArgs <- MixedTokens
  MaxTime = 1
  MaxIssues = 1
  Conn = {c1, c2}
  MaxAuthMessages = 1
  AllowedHosts = {h1, h2}
  MaxConnectionsPerSession = 1
  RelayExpected <- MCRelayExpected
SYMMETRY Symmetry
INVARIANTS TypeOK SlotsExact LimitUnlessDisturbed
