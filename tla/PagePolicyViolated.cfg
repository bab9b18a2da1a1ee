SPECIFICATION FairSpec
CONSTANTS
    s1 = s1
    s2 = s2
    hpc = hpc
    lab = lab
    cpu = cpu
    chat = chat
    slaif = slaif
    elsewhere = elsewhere
    prodKey = prodKey
    devKey = devKey
    pilotKey = pilotKey
    Session = {s1, s2}
    Alias = {hpc, lab}
    PayloadId = {cpu, chat}
    ChatPayload = chat
    Site = {slaif, elsewhere}
    Key = {prodKey, devKey, pilotKey}
    WebOrigins <- MCWebOrigins
    SenderOrigins <- MCSenderOrigins
    Packaged <- SomePackaged
    ProductionRoots = {prodKey}
    LocalStacks <- MCLocalStacks
    Descriptors <- MCDescriptors
    MaxTime = 0
    MaxLaunches = 2
    MaxStacks = 0
    None = None
PROPERTIES
    FixedOrExpiredRefused
