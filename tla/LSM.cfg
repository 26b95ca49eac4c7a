SPECIFICATION Spec

CONSTANTS
    w1 = w1
    w2 = w2

INVARIANTS
    NewestKept
    KeyFound
    LevelsDisjoint
    LevelsOnDisk
    GetFindsKey

SYMMETRY Sym
