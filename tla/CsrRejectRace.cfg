SPECIFICATION Spec
CONSTANTS
    w1 = w1
    w2 = w2
    c1 = c1
    c2 = c2
    alice = alice
    admin = admin
    Workers <- MCWorkers
    Csrs <- MCCsrs
    Users <- MCUsers
    Admins <- MCUsers
    Bootstrap = admin
    NoUser = NoUser
    NoCsr = NoCsr
    MayCrash = TRUE

INVARIANT RejectedHasNoCertificate
