CONSTANT MaxKey = 4
SPECIFICATION Spec
INVARIANTS
    TypeOK
    ChosenCursorValid
    YieldsVisibleKeysInOrder
