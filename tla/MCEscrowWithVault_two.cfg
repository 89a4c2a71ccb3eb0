\* Two orders that share the balance of the contract, and two receipts.
SPECIFICATION SystemSpec
CONSTANTS
    o1 = o1
    o2 = o2
    alice = alice
    bob = bob
    safe = safe
    ZeroAddress = zero
    Never = Never
    OrderIds <- TwoOrders
    Accounts <- TwoAccounts
    Rejecting <- NoAccounts
    Values <- NoOrOneEther
    CommitWindows <- ZeroOrOneSecond
    ClaimWindows <- OneSecond
    Delays <- OneSecond
    Steps <- OneSecond
    LastCreate = 1
    MaxTime = 3
    MaxReceipts = 2
SYMMETRY OrderSymmetry
INVARIANTS Solvent CommitXorRefund ReceiptsImmutable
CHECK_DEADLOCK FALSE
