CONSTANTS
    Thread <- MCThread
    Adder <- MCAdder
    Importer = {"net"}
    Main = "main"
    Timer = {"timer"}
    Limit = 0
    MaxAdds = 2
    None = "none"
SPECIFICATION FairSpec
CHECK_DEADLOCK FALSE
PROPERTY
    ShutdownCompletes
