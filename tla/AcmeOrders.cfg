SPECIFICATION Spec
CONSTANTS
    w1 = w1
    w2 = w2
    o1 = o1
    z1 = z1
    z2 = z2
    http1 = http1
    dns1 = dns1
    dns2 = dns2
    NoItem = NoItem
    Workers <- MCWorkers
    Orders <- MCOrders
    Authzs <- TwoAuthzs
    Challenges <- TwoChallenges
    OrderOf <- TwoOrderOf
    AuthzOf <- TwoAuthzOf
    Dns <- TwoDns
    MaxAttempts = 2
    MayCrash = TRUE

SYMMETRY WorkerSymmetry

INVARIANTS
    TypeOK
    AuthorizedBeforeIssue
    BudgetKept

PROPERTY SettledStays

\* An account may be deactivated and every order closed: nothing is left to do.
CHECK_DEADLOCK FALSE
