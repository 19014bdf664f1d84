SPECIFICATION Spec
CONSTANTS
    None = None
    Incidents = {i1, i2}
    w1 = w1
    w2 = w2
    t1 = t1
    t2 = t2
    Workshops = {w1, w2}
    Technicians = {t1, t2}
    Employer <- MCEmployer
    NearSets <- MCNearSets
    Threads = {h1}
    InitPoints = 2
    MaxPoints = 2
    Bonus = 1
    MaxPenalty = 1
    Penalties = {1}
    TimeoutPenalty = 1
    Toggles = {TRUE}
    MaxOffers = 3
    MaxInFlight = 1
    MaxCrashes = 0
    MaxCompletions = 1
INVARIANTS SingleExclusiveOffer OfferBookConsistent RejectionsCounted BusyTechnicianServes
SYMMETRY MCSymmetry
CHECK_DEADLOCK FALSE
PROPERTY KeepsPromise
