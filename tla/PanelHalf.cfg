CONSTANTS
    p1 = p1
    p2 = p2
    kosdaq = kosdaq
    prod = prod
    market = market
    nothing = nothing
    Procs = {p1, p2}
    Universes = {kosdaq, prod}
    Options = {market}
    Requests <- TwoRequests
    Pairs = 3
    Every = 1
    MinRows = 2
    Nothing = nothing
    Unguarded = {"half"}
    MaxEdits = 0
    MaxDays = 0
    MaxMishaps = 1
SPECIFICATION Spec
INVARIANTS
    OkIsTrue
