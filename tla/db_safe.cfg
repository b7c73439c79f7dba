SPECIFICATION Spec
CONSTANTS
    a = a
    b = b
    x1 = x1
    x2 = x2
    y = y
    Gil = Gil
    System = System
    Empty = Empty
    NoRead = NoRead
    Chars = {a, b}
    Items = {x1, x2}
    Kind <- KindOf
    Rare = {}
    Owned <- OnlyX1
    Stock <- OnlyX2
    Cells = 1
    BagSize = 1
    GilCap = 2
    MaxMails = 3
CHECK_DEADLOCK FALSE
INVARIANT TypeOK KindConserved ShownIsHeld SentIsQueued
CONSTRAINT SomeoneIsSound
