SPECIFICATION Spec
CONSTANTS
    None = None
    Incidents = {i1}
    w1 = w1
    w2 = w2
    t1 = t1
    t2 = t2
    Workshops = {w1}
    Technicians = {t1}
    Employer <- MCEmployer
    NearSets <- MCNearSets
    Threads = {h1, h2}
    InitPoints = 3
    MaxPoints = 3
    Bonus = 1
    MaxPenalty = 2
    Penalties = {2}
    TimeoutPenalty = 1
    Toggles = {TRUE, FALSE}
    MaxOffers = 1
    MaxInFlight = 2
    MaxCrashes = 1
    MaxCompletions = 1
INVARIANTS TypeOK ReputationExplained
SYMMETRY ThreadSymmetry
CHECK_DEADLOCK FALSE
