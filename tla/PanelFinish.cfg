CONSTANTS
    p1 = p1
    p2 = p2
    kosdaq = kosdaq
    prod = prod
    market = market
    nothing = nothing
    Procs = {p1, p2}
    Universes = {kosdaq, prod}
    Options = {market}
    Requests <- TwoRequests
    Pairs = 3
    Every = 2
    MinRows = 2
    Nothing = nothing
    Unguarded = {}
    MaxEdits = 1
    MaxDays = 1
    MaxMishaps = 2
SPECIFICATION Spec
PROPERTIES
    Finished
