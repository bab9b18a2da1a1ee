SPECIFICATION Spec
CONSTANTS
    s1 = s1
    s2 = s2
    cpu = cpu
    chat = chat
    scaffold = scaffold
    other = other
    Session = {s1, s2}
    PayloadId = {cpu, chat}
    ChatPayload = chat
    ChatTemplate = scaffold
    ProfileName = {other, chat}
    NoProfile = NoProfile
    long = 9
    JobIds = {0, 1, 2, 9}
    LongIds = {9}
    OutputCap = 2
    NoJob = NoJob
    Assigned <- MCAssigned
    Commands <- MCCommands
    Catalogs <- MCCatalogs
    IntentTtl = 1
    Greetings <- MCGreetings
    MaxTime = 2
    MaxNoise = 2
    TestJobId = 0
    NoFile = NoFile
    SiteScript = SiteScript
INVARIANTS
    TypeOK
    ReportedJobIsTheSessions
    JobRunsApprovedPayload
    ReportsNeverRefused
    ResolversAgree
