\* get_receipt of a settled order.
SPECIFICATION Spec
CONSTANTS
    tx1 = tx1
    tx2 = tx2
    blank = blank
    Blank = blank
    None = None
    Txids <- OneTx
    Profiles <- PizzaAndGoods
    OrderAmount = 30000000
    ChainId = 8453
    GenesisUnix = 1000
    BlockInterval = 2
    IdSpace = 4
    Steps <- OneOrThreeSeconds
    MaxMono = 6
    LastCommit = 1
    MaxOrders = 1
    MaxReceipts = 3
INVARIANT SettledReceiptHasOutcome
CHECK_DEADLOCK FALSE
