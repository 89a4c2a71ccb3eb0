\* One session, every call at every instant, the clock set back any number of times.
SPECIFICATION FairSpec
CONSTANTS
    None = None
    Seconds <- Windows1
    CustomTimeouts <- Customs
    TimeSpace = 64
    LastCall = 9
    MaxNow = 13
INVARIANTS TypeOK NoStageSkipped EnteredInTime
PROPERTIES OnlyOwnerRevives WaitingEnds
CHECK_DEADLOCK FALSE
