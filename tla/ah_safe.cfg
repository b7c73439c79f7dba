SPECIFICATION FairSpec
CONSTANTS
    a = a
    b = b
    g = g
    h = h
    Nobody = Nobody
    NoParcel = NoParcel
    Chars = {a, b}
    Goods = {g, h}
    Rare = {g}
    Owned <- OwnedBy
    Purse <- PurseOf
    Prices = {1, 2}
    Fee = 1
    ListLimit = 2
    HistorySize = 1
    BagSize = 2
    Threads = {"worker", "main"}
    MaxCrashes = 1
    MaxFailures = 1
    MaxListings = 2
CHECK_DEADLOCK FALSE
INVARIANT TypeOK GoodsConserved SellersPaid
PROPERTY ExpiryEnds
