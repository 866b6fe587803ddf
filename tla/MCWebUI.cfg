SPECIFICATION Spec
CONSTANTS
    Site = {a, b}
    Token = {t1, t2}
    PhpSites = {a}
    Path = {p}
    Empty = Empty
    Plans <- MCPlans
    MaxSurprises = 1
    MaxInFlight = 1
INVARIANTS PollingSound UserInputKept SavedStands
PROPERTIES ListConverges StatusConverges
CHECK_DEADLOCK FALSE
