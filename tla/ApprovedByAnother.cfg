\* Requests run out. One serving process: no two requests overlap.
CHECK_DEADLOCK FALSE
SPECIFICATION Spec
CONSTANTS
    w1 = w1
    w2 = w2
    boot = boot
    adm1 = adm1
    adm2 = adm2
    usr = usr
    t1 = t1
    t2 = t2
    srv = srv
    Users <- MCUsers
    Bootstrap = boot
    FirstAdmins <- MCFirstAdmins
    FirstRequesters = {}
    Processes <- MCServers
    DualControl = TRUE
    MaxRequests = 3
    NoUser = NoUser
    Shell = Shell
    Directory = Directory
    Deactivated = Deactivated
    Workers <- MCWorkers
    CommandLine = CommandLine
    Threshold = 2
    LockTime = 1
    CookieTime = 1
    CacheTime = 2
    Require2fa = FALSE
    MaxLogins = 5
    MaxClock = 2
    Owners <- MCOwners
    TokenAdmins <- MCTokenAdmins
    TokenIds <- MCTokenIds
    ScopeChoices <- MCScopeChoices
    Servers <- MCServers
    MaxDays = 1
    LastDay = 1
    NoToken = NoToken
    NoOwner = NoOwner
PROPERTY ApprovedByAnother
