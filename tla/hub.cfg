SPECIFICATION HubFairSpec
CONSTANTS
    c1 = c1
    c2 = c2
    p1 = p1
    p2 = p2
    Clients = {c1, c2}
    Publishers = {p1, p2}
    SendBuffer = 1
    ChanSize = 2
    MaxPublishes = 3
INVARIANTS
    RegisteredIsOpen
PROPERTY ConnectionIsReleased
CHECK_DEADLOCK FALSE
