CONSTANTS
    Block <- MCBlock
    Genesis = "b0"
    NoBlock = "none"
    Parent <- MCParent
    Height <- MCHeight
    Anc <- MCAnc
    Coin <- MCCoin
    Spends <- MCSpends
    Creates <- MCCreates
    Needs <- MCNeeds
    Utxo <- MCUtxo
    DIP3Height = 2
    DIP3EnforcementHeight = 3
    CheckDepth = 2
    ReorgFloor = 2
    CrashAt <- AnyPoint
    FailAt = {}
SPECIFICATION Spec
INVARIANTS
    TypeOK
    CoinsDbMatchesBestBlock
    RunningNodeConsistent
    ReplayStartsAtEvoDB
    TransitionResumed
    IndexCoversCoins
