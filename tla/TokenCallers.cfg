SPECIFICATION CallersSpec
CONSTANTS
  s1 = s1
  pay1 = pay1
  pay2 = pay2
  job1 = job1
  Values = {s1, pay1, pay2, job1}
  Undefined = Undefined
  Empty = Empty
  NoRecord = NoRecord
  Scopes = {"slaif.relay", "slaif.workload"}
  IdKeys = {"sessionId", "origin"}
  MetaKeys = {"payloadId", "jobId"}
  MaxUsesLimit = 1
  Token = {t1}
  Proc = {p1, p2}
  Ttls = {0, 1}
  UseCounts = {0, 1, 2}
  IssueArgs <- MCIssueArgs
  ExpectedArgs <- MCExpectedArgs
  WorkloadExpected <- MCWorkloadExpected
  RelayExpected <- MCRelayExpected
  Grace = 1
  MaxTime = 2
  MaxIssues = 2
SYMMETRY Symmetry
INVARIANTS CallersTypeOK UsesWithinGrant TombstoneOutlivesToken RegistrationMatchesRecord JobBindingHeld
PROPERTIES ImplementsContract RevocationIsFinal LiveRecordsSurvive
