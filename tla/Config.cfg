CONSTANTS
    rented = rented
    other = other
    own = own
    Servers = {rented, other, own}
    Local = {own}
    WinsOf <- MCWinsOf
    EnvHost = rented
    o1 = o1
    o2 = o2
    Ops = {o1, o2}
    Remote = Remote
    None = None
    MaxContent = 2
    MaxSwitches = 1
    MaxRequests = 3
    MaxPulls = 1
    MaxRefreshes = 1
SPECIFICATION Spec
SYMMETRY RequestSymmetry
CONSTRAINT FewEvents
INVARIANT TypeOK
PROPERTIES WritesWhereRead NothingUnseenLost
CHECK_DEADLOCK FALSE
