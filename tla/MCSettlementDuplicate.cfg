SPECIFICATION Spec
CONSTANTS
    None = None
    Incidents = {i1}
    Threads = {h1, h2}
    Costs = {2, 4}
    Net <- MCNet
    MaxPayments = 2
    MaxOrders = 2
    MaxClock = 5
    MaxInFlight = 2
INVARIANTS OnePaymentPerIncident
SYMMETRY MCSymmetry
CHECK_DEADLOCK FALSE
