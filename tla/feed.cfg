\* a feed without amendments
SPECIFICATION Spec
CONSTANTS
    Books = {b1}
    Ids = {1, 2}
    Prices = {1, 2}
    MaxQty = 2
    QtyMod = 9
INVARIANT TypeOK
INVARIANT NoMissingLevel
INVARIANT SortedBook
INVARIANT LevelTotals
INVARIANT Mirror
INVARIANT Covered
PROPERTY AggregatedSpec
CHECK_DEADLOCK FALSE
