CONSTANTS
    p1 = p1
    p2 = p2
    kosdaq = kosdaq
    prod = prod
    market = market
    nothing = nothing
    Procs = {p1, p2}
    Universes = {kosdaq, prod}
    Options = {market}
    Requests <- TwoRequests
    Pairs = 2
    Every = 1
    MinRows = 1
    Nothing = nothing
    Unguarded = {}
    MaxEdits = 0
    MaxDays = 0
    MaxMishaps = 0
SPECIFICATION Spec
INVARIANTS
    OptionsCompared
