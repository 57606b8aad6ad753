CONSTANTS
    p1 = p1
    p2 = p2
    kosdaq = kosdaq
    prod = prod
    market = market
    nothing = nothing
    Procs = {p1, p2}
    Universes = {kosdaq, prod}
    Options = {market}
    Requests <- MCRequests
    Pairs = 3
    Every = 1
    MinRows = 2
    Nothing = nothing
    Unguarded = {}
    MaxEdits = 1
    MaxDays = 1
    MaxMishaps = 3
SPECIFICATION Spec
INVARIANTS
    TypeOK
    BuildsAlone
    Complete
    Unmixed
    OkIsTrue
PROPERTIES
    ProgressKept
SYMMETRY ProcSymmetry
