\* Requests and ticks run out, and so do the clocks.
CHECK_DEADLOCK FALSE
SPECIFICATION Spec
CONSTANTS
    w1 = w1
    w2 = w2
    worker = worker
    cert = cert
    ca = ca
    l1 = l1
    ca1 = ca1
    ca2 = ca2
    b1 = b1
    b2 = b2
    a1 = a1
    a2 = a2
    a3 = a3
    x1 = x1
    x2 = x2
    x3 = x3
    host = host
    ip = ip
    prof = prof
    n1 = n1
    n2 = n2
    r1 = r1
    r2 = r2
    r3 = r3
    k1 = k1
    k2 = k2
    k3 = k3
    e1 = e1
    Never = Never
    OcspShell = OcspShell
    NoSubject = NoSubject
    NoLabel = NoLabel
    NoKeyCa = NoKeyCa
    Custom = Custom
    NoAuthority = NoAuthority
    NoLeaf = NoLeaf
    Unlimited = Unlimited
    NoBinding = NoBinding
    NoClientKey = NoClientKey
    NoRegistration = NoRegistration
    Runners <- MCProcesses
    WatchedCerts <- MCWatchedCerts
    WatchedCas <- MCWatchedCas
    FirstNotAfter <- MCFirstNotAfter
    LeaseTtl = 1
    DailyInterval = 1
    WarningTime = 1
    LastInstant = 3
    MaxTicks = 2
    Sealers <- MCProcesses
    Grace = 0
    Retention = 1
    MaxSerial = 4
    LastStamp = 2
    OcspWorkers <- MCProcesses
    Subjects <- MCSubjects
    Delegated = TRUE
    ResponderTime = 2
    RenewBefore = 1
    ReplyTtl = 1
    KeyTtl = 2
    CaEnd = 2
    LastMoment = 2
    MaxResponders = 2
    MaxQueries = 4
    KeyCas <- MCKeyCas
    KeyWorkers <- MCKeyWorkers
    Shells <- MCProcesses
    Labels <- MCLabels
    MaxGenerations = 3
    CaIds <- MCCaIds
    LeafIds <- MCLeafIds
    Names <- MCNames
    KindOf <- MCKindOf
    CaRequests <- MCCaRequests
    CaImports <- MCCaImports
    DayChoices = {1}
    NameChoices <- MCNameChoices
    MaxRootDays = 2
    MaxIntermediateDays = 2
    MaxLeafDays = 1
    Profiles <- MCProfiles
    BoundChoices <- MCBoundChoices
    Clerks <- MCProcesses
    LastHalfDay = 1
    MaxOrders = 4
    Servers <- MCProcesses
    Nonces <- MCNonces
    Registrations <- MCRegistrations
    ClientKeys <- MCClientKeys
    EabKeys <- MCEabKeys
    MaxMessages = 3
SYMMETRY MCSymmetry
INVARIANTS
    ServicesTypeOK
    OneHolderAtATime
    NoticedOnce
    ChainHolds
    NoGoodAfterRevocation
    SignedByItsResponder
    NoKeyLost
    OnePassphrase
    ChainsVerify
    LeavesStayLinked
    UsedOnce
    SharedUseBounded
PROPERTY SealsAgree
