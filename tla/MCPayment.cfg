CONSTANTS
    o1 = o1
    o2 = o2
    o3 = o3
    ana = ana
    beto = beto
    Malformed = Malformed
    None = None
    Orders = {o1, o2, o3}
    Order <- ThreeOrders
    Accounts = {ana, beto}
    Files <- SomeFiles
    Unit = 100
SPECIFICATION Spec
INVARIANTS
    AccountsAreKept
    ToldWhatHappened
PROPERTY
    ImplementsMovieSale
CHECK_DEADLOCK FALSE
