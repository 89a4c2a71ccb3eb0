\* One order between any two of three accounts, time for every window to lapse.
SPECIFICATION FairSpec
CONSTANTS
    o1 = o1
    o2 = o2
    alice = alice
    bob = bob
    safe = safe
    ZeroAddress = zero
    Never = Never
    OrderIds <- OneOrder
    Accounts <- AllAccounts
    Rejecting <- OnlySafe
    Values <- NoOrSomeEther
    CommitWindows <- ZeroOrOneSecond
    ClaimWindows <- ZeroOrOneSecond
    Delays <- OneOrTwoSeconds
    Steps <- OneOrTwoSeconds
    LastCreate = 2
    MaxTime = 6
INVARIANTS TypeOK NothingLost CommitmentDecides
PROPERTIES ImplementsDualCommit OfferResolves TimedReleasePays
CHECK_DEADLOCK FALSE
