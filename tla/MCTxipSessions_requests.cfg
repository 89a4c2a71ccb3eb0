\* Requests of every kind, repeated, beside the cleaner.
SPECIFICATION FairSpec
CONSTANTS
    s1 = s1
    m1 = m1
    m2 = m2
    h1 = h1
    h2 = h2
    h3 = h3
    cleaner = cleaner
    Cleaner = cleaner
    None = None
    SessionIds <- OneSession
    MsgIds <- TwoMessages
    Envelopes <- AllTraffic
    Handlers <- ThreeRequests
    Timeout = 0
    MaxMono = 1
    MaxCleanups = 1
INVARIANTS TypeOK SessionHasCache CachedIdsWereServed ReplaysAreDropped ServedInSession
PROPERTIES OnlyIdleSessionsExpire EveryRequestAnswered
CHECK_DEADLOCK FALSE
