SPECIFICATION FairSpec
CONSTANTS
    k1 = k1
    k2 = k2
    e1 = e1
    Sock = {k1, k2}
    Endpoint = {e1}
    MaxAttempt = 2
    MaybeLong = 1
    MaxWrites = 2
    MaxPopups = 2
    MaxFailures = 1
    MaxStops = 1
    None = None
INVARIANTS NeverStuck Watched NonceIsOwn DiskCatchesUp
PROPERTY TriesAgain
CHECK_DEADLOCK FALSE
