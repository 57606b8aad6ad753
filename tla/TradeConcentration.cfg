CONSTANTS
    a = a
    b = b
    Stocks = {a, b}
    Signals <- OneBuy
    StreamCap = 2
    MaxPositions = 1
    MaxDaily = 8
    MaxPosition = 3
    MaxOrderQty = 5
    RefPrice = 2
    Balances = {1, 3}
    MaxMessages = 2
    MaxDay = 2
    MaxFailures = 0
SPECIFICATION Spec
PROPERTIES
    NoConcentration
