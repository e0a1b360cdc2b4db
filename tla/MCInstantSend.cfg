CONSTANTS
    Tx <- MCTx
    Outpoint <- MCOutpoint
    Lock <- MCLock
    Inputs <- MCInputs
    Creator <- MCCreator
    TxOf <- MCTxOf
    Deterministic = {}
    MaxHeight = 1
    None = "none"
    Block <- MCBlock
    Genesis = "g"
    Parent <- MCParent
    Height <- MCHeight
    Content <- MCContent
    KeepArchived = 0
    MaxQueue = 2
SPECIFICATION FairSpec
INVARIANTS
    StoredLockIsFound
    MempoolHasNoRival
    ConfirmedIsNotTracked
PROPERTIES
    ChainLockPrevails
