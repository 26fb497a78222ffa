CONSTANTS
    p1 = p1  p2 = p2  l1 = l1  l2 = l2  l3 = l3
    c1 = c1  r1 = r1  r2 = r2  u1 = u1  u2 = u2
    None = None
    Plugins = {p1}
    Leases = {l1, l2}
    Calls = {c1}
    Requests = {r1, r2}
    Updates = {}
    Changing = {p1}
    MaxLeases = 1
    MaxCommands = 1
    MaxVersion = 2
    LateErrors = FALSE
SPECIFICATION Spec
CHECK_DEADLOCK FALSE
PROPERTY DetachedKeepsLease
