SPECIFICATION Spec
CONSTANTS
    None = None
    Incidents = {i1}
    w1 = w1
    w2 = w2
    t1 = t1
    t2 = t2
    Workshops = {w1, w2}
    Technicians = {t1, t2}
    Employer <- MCEmployer
    NearSets <- MCNearSets
    Threads = {h1, h2}
    InitPoints = 2
    MaxPoints = 2
    Bonus = 1
    MaxPenalty = 1
    Penalties = {1}
    TimeoutPenalty = 1
    Toggles = {}
    MaxOffers = 2
    MaxInFlight = 2
    MaxCrashes = 0
    MaxCompletions = 0
PROPERTIES NoCancelAfterArrival
SYMMETRY MCSymmetry
CHECK_DEADLOCK FALSE
