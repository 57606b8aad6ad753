CONSTANTS
    a = a
    b = b
    Stocks = {a, b}
    Signals <- OneStrategySignal
    StreamCap = 2
    MaxPositions = 1
    MaxDaily = 3
    MaxPosition = 3
    MaxOrderQty = 5
    RefPrice = 2
    Balances = {1, 3}
    MaxMessages = 1
    MaxDay = 2
    MaxFailures = 0
SPECIFICATION Spec
PROPERTIES
    StrategySignalsReachExecution
