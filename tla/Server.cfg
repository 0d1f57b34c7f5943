SPECIFICATION PartSpec
CONSTANTS
    Names = {"admin", "u"}
    First = "admin"
    Tables = {"t"}
    Every = "*"
    Sessions = {p1, p2}
    Admin = 2
    Grantees = {"u"}
    Workloads <- MCWorkloads
    p1 = p1
    p2 = p2
    c1 = c1
    c2 = c2
    c3 = c3
    x = x
    y = y
    z = z
SYMMETRY Interchange
INVARIANTS DecidedByRights WatchWithRight ConnectionsHeld GuessesBounded
PROPERTIES BanHolds
CHECK_DEADLOCK FALSE
