SPECIFICATION FairSpec
CONSTANTS
    root = root
    inter = inter
    sub = sub
    leaf = leaf
    next = next
    w1 = w1
    w2 = w2
    scheduler = scheduler
    NoCa = NoCa
    NoCert = NoCert
    CAs <- MCCas
    Parent <- MCParent
    Keyed <- MCCas
    Certs <- MCCerts
    IssuedBy <- MCIssuedBy
    Existing <- MCExisting
    Workers <- MCWorkers
    Scheduler = scheduler
    Requests <- LiveRequests
    MaxEvents = 3
    MayFail = FALSE
    MayCrash = FALSE

PROPERTIES
    RevocationReachesCrl
    DueCrlIsRefreshed

\* Nothing is left to do once the last request is made and every CA is revoked.
CHECK_DEADLOCK FALSE
