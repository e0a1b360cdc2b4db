CONSTANTS
    Block <- Short
    Genesis = "b0"
    NoBlock = "none"
    Parent <- ShortParent
    Height <- ShortHeight
    Anc <- ShortAnc
    Coin <- ShortCoin
    Spends <- ShortSpends
    Creates <- ShortCreates
    Needs <- ShortNeeds
    Utxo <- ShortUtxo
    DIP3Height = 2
    DIP3EnforcementHeight = 3
    CheckDepth = 2
    ReorgFloor = 2
    CrashAt <- AnyPoint
    FailAt = {"index", "coins", "evo"}
SPECIFICATION Spec
PROPERTIES
    EvoDBFollowsCoins
CHECK_DEADLOCK FALSE
