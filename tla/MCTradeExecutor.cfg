CONSTANTS
    a = a
    b = b
    Stocks = {a, b}
    Signals <- MCSignals
    StreamCap = 2
    MaxPositions = 1
    MaxDaily = 3
    MaxPosition = 3
    MaxOrderQty = 5
    RefPrice = 2
    Balances = {1, 3}
    MaxMessages = 3
    MaxDay = 2
    MaxFailures = 2
SPECIFICATION Spec
CHECK_DEADLOCK FALSE
INVARIANTS
    TypeOK
    BrokerFollowsStream
    DailyLimit
    UnfinishedIsPending
    AnswersAreTrue
    BookMatchesBroker
    PositionCount
PROPERTIES
    ExecutesInOrder
