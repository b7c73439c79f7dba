SPECIFICATION Spec
CONSTANTS
    a = a
    b = b
    x1 = x1
    x2 = x2
    y = y
    Gil = Gil
    System = System
    Empty = Empty
    NoRead = NoRead
    Chars = {a, b}
    Items = {x1, y}
    Kind <- KindOf
    Rare = {}
    Owned <- Together
    Stock <- NoStock
    Cells = 2
    BagSize = 3
    GilCap = 2
    MaxMails = 3
CHECK_DEADLOCK FALSE
INVARIANT ReceivedIsShown
