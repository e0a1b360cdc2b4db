CONSTANTS
    Block <- Linear
    Genesis = "b0"
    NoBlock = "none"
    Parent <- LinearParent
    Height <- LinearHeight
    Anc <- LinearAnc
    Coin <- MCCoin
    Spends <- LinearSpends
    Creates <- LinearCreates
    Needs <- LinearNoNeeds
    Utxo <- LinearUtxo
    DIP3Height = 2
    DIP3EnforcementHeight = 3
    CheckDepth = 2
    ReorgFloor = 4
    CrashAt <- FlushingCoins
    FailAt = {"coins"}
SPECIFICATION Spec
INVARIANTS
    CoinsDbMatchesBestBlock
