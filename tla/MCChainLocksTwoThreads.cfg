CONSTANTS
    Block <- MCBlock
    Genesis = "c0"
    NoBlock = "none"
    Parent <- MCParent
    Height <- MCHeight
    Anc <- MCAnc
    Known <- MCKnown
    StartTip = "c1"
    Lock <- OneBranch
    Net = "net"
    Recoverer = "recoverer"
    Scheduler = "scheduler"
    fMasternodeMode = TRUE
    BlocksFromRPC = FALSE
    DIP8Height = 0
    ActiveAtStart = TRUE
    MaxToggles = 0
SPECIFICATION Spec
PROPERTIES
    BestNeverDecreases
