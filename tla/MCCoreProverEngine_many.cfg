\* Three orders, two order ids: calls interleave, the ids wrap around, and every order settles.
SPECIFICATION FairSpec
CONSTANTS
    tx1 = tx1
    tx2 = tx2
    blank = blank
    Blank = blank
    None = None
    Txids <- OneTx
    Profiles <- HastyAndGoods
    OrderAmount = 30000000
    ChainId = 8453
    GenesisUnix = 1000
    BlockInterval = 2
    IdSpace = 2
    Steps <- OneOrTwoSeconds
    MaxMono = 3
    LastCommit = 0
    MaxOrders = 3
    MaxReceipts = 3
INVARIANTS IdsUniqueUntilWrap ReceiptMatchesEscrow HeightsOrderSettlements
PROPERTY EveryOrderSettles
CHECK_DEADLOCK FALSE
