\* a feed with amendments, which the parser ignores
SPECIFICATION AmendedSpec
CONSTANTS
    Books = {b1}
    Ids = {1, 2}
    Prices = {1, 2, 3}
    MaxQty = 2
    QtyMod = 9
INVARIANT NoMissingLevel
CHECK_DEADLOCK FALSE
