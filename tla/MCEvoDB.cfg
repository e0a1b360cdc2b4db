CONSTANTS
    k1 = k1
    k2 = k2
    r1 = r1
    v1 = v1
    v2 = v2
    NoVal = NoVal
    Key = {k1, k2}
    RawKey = {r1}
    Val = {v1, v2}
    KeySize <- MCKeySize
    ValSize <- MCValSize
SPECIFICATION Spec
INVARIANTS
    TypeOK
    LayersDisjoint
    MemoryUsageExact
    ReadsAreCurrent
PROPERTY StoreSpec
