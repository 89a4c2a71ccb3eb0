\* The seller after a buyer who claimed first.
SPECIFICATION Spec
CONSTANTS
    o1 = o1
    o2 = o2
    alice = alice
    bob = bob
    safe = safe
    ZeroAddress = zero
    Never = Never
    OrderIds <- OneOrder
    Accounts <- TwoAccounts
    Rejecting <- NoAccounts
    Values <- NoOrOneEther
    CommitWindows <- OneSecond
    ClaimWindows <- OneSecond
    Delays <- OneSecond
    Steps <- OneSecond
    LastCreate = 2
    MaxTime = 5
INVARIANTS PaymentStaysClaimable
CHECK_DEADLOCK FALSE
