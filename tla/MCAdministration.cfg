SPECIFICATION AdministrationSpec
CONSTANTS
    Emails = {e1, e2}
    Servers = {s1}
    Handlers = {h1, h2}
    Absent = Absent
    MaxCodes = 2
    MaxCalls = 3
    MaxRemovals = 1
    MaxRestarts = 1
    Users = {u1}
    Roles = {r1, r2}
    Permissions = {p1, p2}
    Manage = p1
    Editors = {h1, h2}
    Nobody = Nobody
    MaxEdits = 3
    RowIds = {x1, x2}
    Partners = {y1}
    Shops = {w1}
    Analysts = {h1}
    Drafters = {h1, h2}
    Templates = {t1, t2}
    Schedules = {s1, s2, s3}
    Unset = Unset
    Deleted = Deleted
    MaxWrites = 2
    People = {a1, a2, o}
    Admins = {a1, a2}
    Owner = o
    Notices = {n1}
    MaxFailures = 1
INVARIANTS
    RegisteredOnce RegistrationWhole 
    LinksWhole
    CountMatchesRows SchedulesWhole
    PushedIsKept 
PROPERTIES
    OnlyAsked OnlyNamed UnreadStays
CHECK_DEADLOCK FALSE
