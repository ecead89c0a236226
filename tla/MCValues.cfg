SPECIFICATION ValuesSpec
CONSTANTS
    Strings = {w1, w2}
    Variants = {v1, v2}
    Texts = {x1, x2, x3, x4}
    Blocks = {b1, b2, b3}
    Null = Null
    Sentinel = Sentinel
    InitialCapacity = 1
    MaxLength = 3
    Rules <- AllRules
SYMMETRY Symmetry
INVARIANTS OwnedOnce
