CONSTANTS
    Block <- MCBlock
    Genesis = "c0"
    NoBlock = "none"
    Parent <- MCParent
    Height <- MCHeight
    Anc <- MCAnc
    Known <- MCKnown
    StartTip = "c1"
    Lock <- OneLock
    Net = "net"
    Recoverer = "recoverer"
    Scheduler = "scheduler"
    fMasternodeMode = FALSE
    BlocksFromRPC = FALSE
    DIP8Height = 0
    ActiveAtStart = FALSE
    MaxToggles = 1
SPECIFICATION FairSpec
INVARIANTS
    TypeOK
    AnnouncedLockIsFinal
    KnownLockIsEnforced
    ActiveChainUnflagged
PROPERTIES
    LockGetsEnforced
