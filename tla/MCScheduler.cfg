CONSTANTS
    Thread <- MCThread
    Adder <- MCAdder
    Importer = {}
    Main = "main"
    Timer = {"timer"}
    Limit = 0
    MaxAdds = 2
    None = "none"
SPECIFICATION FairSpec
INVARIANTS
    NothingStranded
    DrainRunsAll
PROPERTIES
    QueueSpec
    SyncReturns
    ShutdownCompletes
