SPECIFICATION FairSpec
CONSTANTS
    r1 = r1
    r2 = r2
    c1 = c1
    start = start
    t1 = t1
    t2 = t2
    own = own
    Req = {r1,r2}
    Conv = {c1,start}
    Start = start
    Created = {t1,t2}
    Own = own
    Wants <- Mixed
    MaxConcurrent = 1
    MaxResults = 1
    MaxMarkers = 1
    MaxSocks = 2
    MaxAsks = 3
    None = None
INVARIANTS SlotsAreKept NothingAfterCancel MarkersAreOpenTabs AskersAreAnswered
PROPERTY KeepsThePromise
CHECK_DEADLOCK FALSE
