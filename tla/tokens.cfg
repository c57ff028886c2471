\* every token of four digits
SPECIFICATION CountSpec
CONSTANTS
    Base = 10
    Digits = 4
    OrdersSize = 1
    QtyMod = 16
    SaveMod = 4096
PROPERTY TokensGrow
PROPERTY ExactWithoutInnerNine
