\* A client that repeats a TGP message before the first copy was answered.
SPECIFICATION Spec
CONSTANTS
    s1 = s1
    m1 = m1
    m2 = m2
    h1 = h1
    h2 = h2
    h3 = h3
    cleaner = cleaner
    Cleaner = cleaner
    None = None
    SessionIds <- OneSession
    MsgIds <- TwoMessages
    Envelopes <- Retries
    Handlers <- ThreeRequests
    Timeout = 1
    MaxMono = 0
    MaxCleanups = 0
INVARIANTS ProcessedOnce
CHECK_DEADLOCK FALSE
