\* a side of the book, all four operations
SPECIFICATION Spec
CONSTANTS
    Ids = {1, 2, 3}
    Prices <- MCPrices
    MaxQty = 3
    QtyMod = 16
INVARIANT LevelsAreTheSums
INVARIANT BestPriceIsBest
