SPECIFICATION DeskSpec
CONSTANTS
    u1 = u1
    u2 = u2
    u3 = u3
    u4 = u4
    p1 = p1
    p2 = p2
    p3 = p3
    p4 = p4
    e1 = e1
    e2 = e2
    e4 = e4
    x = x
    y = y
    Users = {u1, u2, u3, u4}
    Phones = {p1, p2, p3, p4}
    Emails = {e1, e2, e4}
    Passwords = {x, y}
    Established <- Merchants
    Requests <- LinkPool
    DeskRequests <- LinkDesk
    Workers = {w1, w2}
    MaxSends = 3
    MaxFailed = 2
    Lists = {}
    PageSize = 1
    Id <- Ids
    None = None
PROPERTIES NewAddressUnverified
CHECK_DEADLOCK FALSE
SYMMETRY WorkerSymmetry
