SPECIFICATION Spec
CONSTANTS
  Window = {w1, w2}
  Session = {s1, s2}
  Policy <- OneSeries
  PayloadId = payload
  Values = {s1, s2, payload}
  Scopes = {"slaif.launch", "slaif.relay", "slaif.jobReport", "slaif.workload"}
  IdKeys = {"sessionId"}
  MetaKeys = {"payloadId"}
  Undefined = Undefined
  Empty = Empty
  NoRecord = NoRecord
  None = None
  Token <- SessionTokens
  TokenTtl = 1
  Ttls = {1}
  UseCounts = {1}
  IssueArgs = {}
  MaxUsesLimit = 1
  MaxIssues = 1
  MaxTime = 1
  MaxReloads = 1
  MaxUpdates = 1
SYMMETRY Symmetry
INVARIANTS TypeOK LaunchChain SettledIsReported PolicyOfRecord
PROPERTIES AcceptedMonotone
