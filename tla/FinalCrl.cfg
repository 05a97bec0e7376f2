SPECIFICATION Spec
CONSTANTS
    root = root
    inter = inter
    sub = sub
    leaf = leaf
    next = next
    w1 = w1
    w2 = w2
    scheduler = scheduler
    NoCa = NoCa
    NoCert = NoCert
    CAs <- MCCas
    Parent <- MCParent
    Keyed <- MCCas
    Certs <- MCCerts
    IssuedBy <- MCIssuedBy
    Existing <- MCExisting
    Workers <- OneWorker
    Scheduler = scheduler
    Requests <- ReissueRequests
    MaxEvents = 3
    MayFail = FALSE
    MayCrash = FALSE

PROPERTY FinalCrlStays

\* Nothing is left to do once the last request is made and every CA is revoked.
CHECK_DEADLOCK FALSE
