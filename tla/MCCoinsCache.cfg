CONSTANTS
    c1 = c1
    c2 = c2
    Spent = Spent
    Null = Null
    Outpoint = {o1, o2}
    Coin = {c1, c2}
    Block = {h1}
    Usage <- MCUsage
SPECIFICATION Spec
INVARIANTS
    FlagsAreTrue
    NeverThrows
    UsageExact
PROPERTIES
    ViewsSpec
    ChangesTakeEffect
