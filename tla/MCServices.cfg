SPECIFICATION ServicesSpec
CONSTANTS
    Instances = {s1, s2}
    Reports = {reports}
    Others = {other}
    AdminRole = admin
    OtherRoles = {owner}
    Seeded = {x1}
    MaxStarts = 4
    MaxRevocations = 1
    MaxSeedErrors = 1
    Requests = {q1, q2}
    Capacity = 1
    MaxFaults = 2
    MaxCrashes = 1
    Viewers = {v1, v2}
    MaxMoves = 2
    Near = {1}
    MaxBreakdowns = 1
    Files = {f1}
    Chunks = 4
    Workers = 2
INVARIANTS
    GrantsWhole
    EntriesAccounted AnsweredOnce LossExplained
     
    TranscriptInOrder
PROPERTIES
     BufferDrains BroadcastEnds TranscriptionEnds
CHECK_DEADLOCK FALSE
